---- MODULE Spec2Model ----
(***************************************************************************)
(* A model of the score compiler and its consumers of heart-of-the-tiles:  *)
(* the exact divider, the timing distribution (process_notes), the track   *)
(* alignment, the level compiler (parse_and_combine_musics), the level     *)
(* load handler and the MIDI playback scan of the AudioManager.            *)
(*                                                                         *)
(* Each subsystem has its own specification over its own variables; the    *)
(* variables of the other subsystems keep their idle value.                *)
(***************************************************************************)
EXTENDS Integers, Sequences, FiniteSets, TLC

VARIABLES
    \* SafeDivider instance under test (level_loader.ts 671-690)
    sd_remainder, sd_a, sd_b, sd_calls, sd_sum, sd_last, sd_status,
    \* one call of process_notes (level_loader.ts 874-1013)
    pn_notes, pn_length, pn_bpm, pn_result, pn_pc,
    \* one call of verify_track_length (level_loader.ts 1098-1112):
    \* the tracks' messages as passed, and what the call left
    al_before, al_result, al_pc,
    \* one call of parse_and_combine_musics (level_loader.ts 406-474): the parsed
    \* JSON document and the outcome of the call
    co_input, co_result, co_pc,
    \* the level-load click handler (renderer_main.ts 98-160) and the GameData of the
    \* GameStateManager (game_state.ts 36-57, 193-218): position of the handler, the
    \* file chosen, the status line, how the last attempt ended, the number of
    \* load_level calls and of clicks so far
    ld_pc, ld_file, ld_status, ld_last, ld_load_calls, ld_attempts, game_data,
    \* the AudioManager (part_004 12-14, 175-291): the MIDI data loaded, the
    \* consumed-id set, and what each update_midi_playback call since the last
    \* reset was given and returned
    pb_midi_data, pb_played_notes, pb_scans,
    \* the note indicators (note_indicator.ts 142-161): the array, and the calls of
    \* consume_indicator_by_note_id and get_active_indicators made on it so far
    ni_indicators, ni_log,
    \* two invocations of parse_and_combine_musics on one input (level_loader.ts
    \* 406-474): the parsed document and what each invocation returned
    cd_input, cd_first, cd_second, cd_pc,
    \* one component string (level_loader.ts 80-109) and what parse_component and
    \* is_only_rest_letters return for it
    ly_component, ly_parsed, ly_only_rest, ly_pc,
    \* calls of ticks_to_seconds (level_loader.ts 1399-1421): the tempo map, the
    \* last call and the call before it
    tt_tempos, tt_last, tt_prev,
    \* one call of parse_track, iteration by iteration (level_loader.ts 695-869):
    \* the score, the index of the next character, the mode, the pending notes,
    \* the messages pushed, how the call stands, its error, and the character and
    \* parser state the last iteration started from
    pt_score, pt_i, pt_mode, pt_notes, pt_messages, pt_status, pt_err, pt_prev,
    \* one token measured by get_length and get_rest (level_loader.ts 582-666)
    gl_token, gl_base_beats, gl_length, gl_rest, gl_pc,
    \* one call of process_music: its inputs, the rows returned, its position
    pm_base_beats, pm_scores, pm_rows, pm_pc,
    \* the conversion of one song: the entries, the parts parsed, the parts aligned,
    \* the cursor of process_track_messages, its table of open notes, the notes
    \* pushed on each output track, the position
    sg_musics, sg_parsed, sg_parts, sg_walk, sg_active_notes, sg_tracks, sg_pc,
    \* one call of split_score: the score, the components returned, the position
    sp_score, sp_components, sp_pc,
    \* one call of shrink_track: the track, the amount, the outcome, the position
    sh_messages, sh_amount, sh_result, sh_pc,
    \* building the note indicators of a timeline and playing the timeline
    bi_midi_json, bi_rows, bi_metadata, bi_indicators, bi_rebuilt, bi_played_notes, bi_scans, bi_pc,
    \* one component of a section as a row and as ticks of the section's part
    rt_music, rt_component, rt_row, rt_row_seconds, rt_part_seconds, rt_pc,
    \* the game data of a GameStateManager, its bot flag, the last call
    gm_data, gm_bot, gm_last

sd_vars == <<sd_remainder, sd_a, sd_b, sd_calls, sd_sum, sd_last, sd_status>>
pn_vars == <<pn_notes, pn_length, pn_bpm, pn_result, pn_pc>>
al_vars == <<al_before, al_result, al_pc>>
co_vars == <<co_input, co_result, co_pc>>
ld_vars == <<ld_pc, ld_file, ld_status, ld_last, ld_load_calls, ld_attempts, game_data>>
pb_vars == <<pb_midi_data, pb_played_notes, pb_scans>>
ni_vars == <<ni_indicators, ni_log>>
cd_vars == <<cd_input, cd_first, cd_second, cd_pc>>
ly_vars == <<ly_component, ly_parsed, ly_only_rest, ly_pc>>
tt_vars == <<tt_tempos, tt_last, tt_prev>>
pt_vars == <<pt_score, pt_i, pt_mode, pt_notes, pt_messages, pt_status, pt_err, pt_prev>>
gl_vars == <<gl_token, gl_base_beats, gl_length, gl_rest, gl_pc>>
pm_vars == <<pm_base_beats, pm_scores, pm_rows, pm_pc>>
sg_vars == <<sg_musics, sg_parsed, sg_parts, sg_walk, sg_active_notes, sg_tracks, sg_pc>>
sp_vars == <<sp_score, sp_components, sp_pc>>
sh_vars == <<sh_messages, sh_amount, sh_result, sh_pc>>
bi_vars == <<bi_midi_json, bi_rows, bi_metadata, bi_indicators, bi_rebuilt, bi_played_notes, bi_scans, bi_pc>>
rt_vars == <<rt_music, rt_component, rt_row, rt_row_seconds, rt_part_seconds, rt_pc>>
gm_vars == <<gm_data, gm_bot, gm_last>>
vars == <<sd_vars, pn_vars, al_vars, co_vars, ld_vars, pb_vars, ni_vars, cd_vars, ly_vars, tt_vars, pt_vars, gl_vars, pm_vars, sg_vars, sp_vars, sh_vars, bi_vars, rt_vars, gm_vars>>

\* what the actions of one subsystem leave alone: the other subsystems
sd_frame == <<pn_vars, al_vars, co_vars, ld_vars, pb_vars, ni_vars, cd_vars, ly_vars, tt_vars, pt_vars, gl_vars, pm_vars, sg_vars, sp_vars, sh_vars, bi_vars, rt_vars, gm_vars>>
pn_frame == <<sd_vars, al_vars, co_vars, ld_vars, pb_vars, ni_vars, cd_vars, ly_vars, tt_vars, pt_vars, gl_vars, pm_vars, sg_vars, sp_vars, sh_vars, bi_vars, rt_vars, gm_vars>>
al_frame == <<sd_vars, pn_vars, co_vars, ld_vars, pb_vars, ni_vars, cd_vars, ly_vars, tt_vars, pt_vars, gl_vars, pm_vars, sg_vars, sp_vars, sh_vars, bi_vars, rt_vars, gm_vars>>
co_frame == <<sd_vars, pn_vars, al_vars, ld_vars, pb_vars, ni_vars, cd_vars, ly_vars, tt_vars, pt_vars, gl_vars, pm_vars, sg_vars, sp_vars, sh_vars, bi_vars, rt_vars, gm_vars>>
ld_frame == <<sd_vars, pn_vars, al_vars, co_vars, pb_vars, ni_vars, cd_vars, ly_vars, tt_vars, pt_vars, gl_vars, pm_vars, sg_vars, sp_vars, sh_vars, bi_vars, rt_vars, gm_vars>>
pb_frame == <<sd_vars, pn_vars, al_vars, co_vars, ld_vars, ni_vars, cd_vars, ly_vars, tt_vars, pt_vars, gl_vars, pm_vars, sg_vars, sp_vars, sh_vars, bi_vars, rt_vars, gm_vars>>
ni_frame == <<sd_vars, pn_vars, al_vars, co_vars, ld_vars, pb_vars, cd_vars, ly_vars, tt_vars, pt_vars, gl_vars, pm_vars, sg_vars, sp_vars, sh_vars, bi_vars, rt_vars, gm_vars>>
cd_frame == <<sd_vars, pn_vars, al_vars, co_vars, ld_vars, pb_vars, ni_vars, ly_vars, tt_vars, pt_vars, gl_vars, pm_vars, sg_vars, sp_vars, sh_vars, bi_vars, rt_vars, gm_vars>>
ly_frame == <<sd_vars, pn_vars, al_vars, co_vars, ld_vars, pb_vars, ni_vars, cd_vars, tt_vars, pt_vars, gl_vars, pm_vars, sg_vars, sp_vars, sh_vars, bi_vars, rt_vars, gm_vars>>
tt_frame == <<sd_vars, pn_vars, al_vars, co_vars, ld_vars, pb_vars, ni_vars, cd_vars, ly_vars, pt_vars, gl_vars, pm_vars, sg_vars, sp_vars, sh_vars, bi_vars, rt_vars, gm_vars>>
pt_frame == <<sd_vars, pn_vars, al_vars, co_vars, ld_vars, pb_vars, ni_vars, cd_vars, ly_vars, tt_vars, gl_vars, pm_vars, sg_vars, sp_vars, sh_vars, bi_vars, rt_vars, gm_vars>>
gl_frame == <<sd_vars, pn_vars, al_vars, co_vars, ld_vars, pb_vars, ni_vars, cd_vars, ly_vars, tt_vars, pt_vars, pm_vars, sg_vars, sp_vars, sh_vars, bi_vars, rt_vars, gm_vars>>
pm_frame == <<sd_vars, pn_vars, al_vars, co_vars, ld_vars, pb_vars, ni_vars, cd_vars, ly_vars, tt_vars, pt_vars, gl_vars, sg_vars, sp_vars, sh_vars, bi_vars, rt_vars, gm_vars>>
sg_frame == <<sd_vars, pn_vars, al_vars, co_vars, ld_vars, pb_vars, ni_vars, cd_vars, ly_vars, tt_vars, pt_vars, gl_vars, pm_vars, sp_vars, sh_vars, bi_vars, rt_vars, gm_vars>>
sp_frame == <<sd_vars, pn_vars, al_vars, co_vars, ld_vars, pb_vars, ni_vars, cd_vars, ly_vars, tt_vars, pt_vars, gl_vars, pm_vars, sg_vars, sh_vars, bi_vars, rt_vars, gm_vars>>
sh_frame == <<sd_vars, pn_vars, al_vars, co_vars, ld_vars, pb_vars, ni_vars, cd_vars, ly_vars, tt_vars, pt_vars, gl_vars, pm_vars, sg_vars, sp_vars, bi_vars, rt_vars, gm_vars>>
bi_frame == <<sd_vars, pn_vars, al_vars, co_vars, ld_vars, pb_vars, ni_vars, cd_vars, ly_vars, tt_vars, pt_vars, gl_vars, pm_vars, sg_vars, sp_vars, sh_vars, rt_vars, gm_vars>>
rt_frame == <<sd_vars, pn_vars, al_vars, co_vars, ld_vars, pb_vars, ni_vars, cd_vars, ly_vars, tt_vars, pt_vars, gl_vars, pm_vars, sg_vars, sp_vars, sh_vars, bi_vars, gm_vars>>
gm_frame == <<sd_vars, pn_vars, al_vars, co_vars, ld_vars, pb_vars, ni_vars, cd_vars, ly_vars, tt_vars, pt_vars, gl_vars, pm_vars, sg_vars, sp_vars, sh_vars, bi_vars, rt_vars>>

(***************************************************************************)
(* Generic helpers                                                         *)
(***************************************************************************)
RECURSIVE SeqsUpTo(_, _)
\* all sequences over S of length at most n
SeqsUpTo(S, n) ==
    IF n = 0 THEN {<<>>}
    ELSE LET shorter == SeqsUpTo(S, n - 1)
         IN  shorter \cup {Append(s, x) : s \in {t \in shorter : Len(t) = n - 1}, x \in S}

RECURSIVE SumSeq(_)
SumSeq(s) == IF s = <<>> THEN 0 ELSE Head(s) + SumSeq(Tail(s))

\* number of positions of s holding x  (notes.filter(n => n === x).length)
CountOf(s, x) == Cardinality({i \in 1..Len(s) : s[i] = x})

\* s without the elements equal to x, order kept
Without(s, x) == SelectSeq(s, LAMBDA e : e # x)

(***************************************************************************)
(* Messages (ParsedMessage): type 0 NoteOn, 1 NoteOff, 2 Delay, 3 Ignore   *)
(***************************************************************************)
Msg(t, v) == [type |-> t, value |-> v]
NoteOn(p) == Msg(0, p)
NoteOff(p) == Msg(1, p)
Delay(d) == Msg(2, d)
Ignore == Msg(3, 0)

RECURSIVE TotalDelay(_)
\* summed Delay ticks of a message list
TotalDelay(msgs) ==
    IF msgs = <<>> THEN 0
    ELSE (IF Head(msgs).type = 2 THEN Head(msgs).value ELSE 0) + TotalDelay(Tail(msgs))

\* messages NoteOn / NoteOff for every pitch of ps, in order
OnAll(ps) == [i \in 1..Len(ps) |-> NoteOn(ps[i])]
OffAll(ps) == [i \in 1..Len(ps) |-> NoteOff(ps[i])]

(***************************************************************************)
(* SafeDivider (level_loader.ts 671-690)                                   *)
(***************************************************************************)
\* a mutated divide whose carry test is > instead of >=
SafeDivider_divide_gt(rem, a, b) ==
    IF b = 0 THEN [thrown |-> TRUE, ret |-> 0, rem |-> rem]
    ELSE LET c == a \div b
             r == rem + (a - c * b)
         IN  IF r > b THEN [thrown |-> FALSE, ret |-> c + 1, rem |-> r - b]
             ELSE [thrown |-> FALSE, ret |-> c, rem |-> r]

\* a mutated divide that drops the carry: plain floor division
SafeDivider_divide_nocarry(rem, a, b) ==
    IF b = 0 THEN [thrown |-> TRUE, ret |-> 0, rem |-> rem]
    ELSE [thrown |-> FALSE, ret |-> a \div b, rem |-> rem + (a - (a \div b) * b)]

\* divide(a, b) on an instance whose remainder field is rem:
\* the value returned and the remainder left behind
SafeDivider_divide(rem, a, b) ==
    IF b = 0 THEN [thrown |-> TRUE, ret |-> 0, rem |-> rem]
    ELSE LET c == a \div b
             r == rem + (a - c * b)
         IN  IF r >= b THEN [thrown |-> FALSE, ret |-> c + 1, rem |-> r - b]
             ELSE [thrown |-> FALSE, ret |-> c, rem |-> r]

\* bounds of the divider specification
MaxDividend == 10
MaxDivisor == 4
MaxCalls == 8

SdIdle ==
    /\ sd_remainder = 0 /\ sd_a = 0 /\ sd_b = 1 /\ sd_calls = 0
    /\ sd_sum = 0 /\ sd_last = 0 /\ sd_status = "idle"

\* new SafeDivider(): remainder = 0; the arguments of the calls to come
SdInit ==
    /\ sd_remainder = 0
    /\ sd_a \in 0..MaxDividend
    /\ sd_b \in 0..MaxDivisor
    /\ sd_calls = 0 /\ sd_sum = 0 /\ sd_last = 0
    /\ sd_status = "fresh"

\* one call divide(sd_a, sd_b)
SdDivide ==
    /\ sd_status \in {"fresh", "used"}
    /\ sd_calls < MaxCalls
    /\ LET d == SafeDivider_divide(sd_remainder, sd_a, sd_b)
       IN  IF d.thrown
           THEN /\ sd_status' = "thrown"
                /\ UNCHANGED <<sd_remainder, sd_a, sd_b, sd_calls, sd_sum, sd_last>>
                /\ UNCHANGED sd_frame
           ELSE /\ sd_remainder' = d.rem
                /\ sd_last' = d.ret
                /\ sd_sum' = sd_sum + d.ret
                /\ sd_calls' = sd_calls + 1
                /\ sd_status' = "used"
                /\ UNCHANGED <<sd_a, sd_b>>
                /\ UNCHANGED sd_frame

\* reset(): the instance is as new
SdReset ==
    /\ sd_status = "used"
    /\ sd_remainder' = 0
    /\ sd_calls' = 0 /\ sd_sum' = 0 /\ sd_last' = 0
    /\ sd_status' = "fresh"
    /\ UNCHANGED <<sd_a, sd_b>>
    /\ UNCHANGED sd_frame

(***************************************************************************)
(* process_notes (level_loader.ts 874-1013)                                *)
(* notes: pitches and operator markers 2 (~), 3 (@), 4 (%), 5 (!), 6 (^).  *)
(* The result is the list of messages pushed and whether the call threw    *)
(* (messages pushed before a throw stay in the caller's array).            *)
(***************************************************************************)
PnOk(msgs) == [thrown |-> FALSE, err |-> "", msgs |-> msgs]
PnThrow(e, msgs) == [thrown |-> TRUE, err |-> e, msgs |-> msgs]

RECURSIVE ArpeggioLoop(_, _, _, _, _, _, _, _, _)
\* the loop shared by the three arpeggio branches (894-917, 920-938, 941-959):
\* marker is the operator code, each marker carves divide(num * length, den)
ArpeggioLoop(notes, idx, length, rem, msgs, marker, num, den, err) ==
    IF idx = Len(notes) + 1
    THEN PnOk(msgs \o <<Delay(length)>> \o OffAll(Without(notes, marker)))
    ELSE IF notes[idx] = marker
    THEN LET d == SafeDivider_divide(rem, num * length, den)
         IN  IF d.ret > length
             THEN PnThrow(err, msgs)
             ELSE ArpeggioLoop(notes, idx + 1, length - d.ret, d.rem,
                               Append(msgs, Delay(d.ret)), marker, num, den, err)
    ELSE ArpeggioLoop(notes, idx + 1, length, rem, Append(msgs, NoteOn(notes[idx])),
                      marker, num, den, err)

\* an @ branch that carves remaining/10 whatever the number of markers
process_notes_arp1_tenth(notes, length) ==
    ArpeggioLoop(notes, 1, length, 0, <<>>, 3, 1, 10, "Fatal error with @")

\* the @ branch (892-917)
process_notes_arp1(notes, length) ==
    LET arp1 == CountOf(notes, 3)
    IN  ArpeggioLoop(notes, 1, length, 0, <<>>, 3, 1,
                     IF arp1 = 1 THEN 10 ELSE 10 * (arp1 - 1), "Fatal error with @")

\* the % branch (918-938)
process_notes_arp2(notes, length) ==
    ArpeggioLoop(notes, 1, length, 0, <<>>, 4, 3, 10 * CountOf(notes, 4), "Fatal error with %")

\* the ! branch (939-959)
process_notes_arp3(notes, length) ==
    ArpeggioLoop(notes, 1, length, 0, <<>>, 5, 3, 20 * CountOf(notes, 5), "Fatal error with !")

RECURSIVE OrnamentLoop_gt(_, _, _, _, _, _)
\* a loop that ends only when the step is greater than the remaining length
OrnamentLoop_gt(notes, flip, length, rem, msgs, bpm32) ==
    LET d == SafeDivider_divide(rem, bpm32, 720)
        p == notes[flip + 1]
    IN  IF d.ret > length
        THEN PnOk(msgs \o <<NoteOn(p), Delay(length), NoteOff(p)>>)
        ELSE OrnamentLoop_gt(notes, IF flip = 0 THEN 2 ELSE 0, length - d.ret, d.rem,
                             msgs \o <<NoteOn(p), Delay(d.ret), NoteOff(p)>>, bpm32)

RECURSIVE OrnamentLoop(_, _, _, _, _, _)
\* the while (true) loop of the ornament branch (969-992); flip is 0 or 2
OrnamentLoop(notes, flip, length, rem, msgs, bpm32) ==
    LET d == SafeDivider_divide(rem, bpm32, 720)
        p == notes[flip + 1]
    IN  IF d.ret >= length
        THEN PnOk(msgs \o <<NoteOn(p), Delay(length), NoteOff(p)>>)
        ELSE OrnamentLoop(notes, IF flip = 0 THEN 2 ELSE 0, length - d.ret, d.rem,
                          msgs \o <<NoteOn(p), Delay(d.ret), NoteOff(p)>>, bpm32)

\* the ornament shape test (962): TRUE when the list is not [pitchA, ^, pitchB]
ornament_malformed(notes) ==
    Len(notes) # 3 \/ notes[2] # 6 \/ notes[1] < 20 \/ notes[3] < 20

\* the ^ branch (960-992)
process_notes_ornament(notes, length, bpm) ==
    IF ornament_malformed(notes)
    THEN PnThrow("Problem with ornament", <<>>)
    ELSE OrnamentLoop(notes, 0, length, 0, <<>>, bpm * 32)

RECURSIVE NormalLoop_offfirst(_, _, _, _, _, _, _)
\* a loop that releases the pitches of a group before its Delay
NormalLoop_offfirst(notes, idx, temp_notes, length, divisor, rem, msgs) ==
    IF idx > Len(notes) + 1 THEN PnOk(msgs)
    ELSE IF idx = Len(notes) + 1 \/ notes[idx] = 2
    THEN LET d == SafeDivider_divide(rem, length, divisor)
         IN  NormalLoop_offfirst(notes, idx + 1, <<>>, length, divisor, d.rem,
                                 msgs \o OnAll(temp_notes) \o OffAll(temp_notes)
                                      \o <<Delay(d.ret)>>)
    ELSE NormalLoop_offfirst(notes, idx + 1, Append(temp_notes, notes[idx]), length, divisor,
                             rem, msgs)

RECURSIVE NormalLoop(_, _, _, _, _, _, _)
\* the loop of the plain / divider branch (997-1011)
NormalLoop(notes, idx, temp_notes, length, divisor, rem, msgs) ==
    IF idx > Len(notes) + 1 THEN PnOk(msgs)
    ELSE IF idx = Len(notes) + 1 \/ notes[idx] = 2
    THEN LET d == SafeDivider_divide(rem, length, divisor)
         IN  NormalLoop(notes, idx + 1, <<>>, length, divisor, d.rem,
                        msgs \o OnAll(temp_notes) \o <<Delay(d.ret)>> \o OffAll(temp_notes))
    ELSE NormalLoop(notes, idx + 1, Append(temp_notes, notes[idx]), length, divisor, rem, msgs)

\* the plain / divider branch (993-1012)
process_notes_normal(notes, length) ==
    NormalLoop(notes, 1, <<>>, length, CountOf(notes, 2) + 1, 0, <<>>)

\* operator validation (877-888): TRUE when process_notes throws
\* the test on the number of operator kinds alone
operators_rejected_kinds(notes) ==
    Cardinality({k \in {2, 3, 4, 5, 6} : CountOf(notes, k) > 0}) > 1

operators_rejected(notes) ==
    LET B(n) == IF n > 0 THEN 1 ELSE 0
        operator_count == B(CountOf(notes, 2)) + B(CountOf(notes, 3)) + B(CountOf(notes, 4))
                          + B(CountOf(notes, 5)) + B(CountOf(notes, 6))
    IN  operator_count > 1 \/ CountOf(notes, 6) > 1

process_notes(notes, length, bpm) ==
    IF operators_rejected(notes) THEN PnThrow("Problem with operators", <<>>)
    ELSE IF CountOf(notes, 3) > 0 THEN process_notes_arp1(notes, length)
    ELSE IF CountOf(notes, 4) > 0 THEN process_notes_arp2(notes, length)
    ELSE IF CountOf(notes, 5) > 0 THEN process_notes_arp3(notes, length)
    ELSE IF CountOf(notes, 6) > 0 THEN process_notes_ornament(notes, length, bpm)
    ELSE process_notes_normal(notes, length)

\* bounds of the process_notes specification
MaxNotes == 4
MaxLength == 9
\* pitches c (48) and e (52) and the five operator markers
PnAlphabet == {48, 52, 2, 3, 4, 5, 6}
\* effective bpm values: steps bpm*32/720 below one tick, with and without remainder
PnBpms == {12, 23, 45, 120}

PnIdle ==
    /\ pn_notes = <<>> /\ pn_length = 0 /\ pn_bpm = 0
    /\ pn_result = PnOk(<<>>) /\ pn_pc = "idle"

\* ornaments between pitches at and around the floor of 20 (A-3 is 21)
PnOrnaments == {<<p, 6, q>> : p, q \in {1, 19, 20, 21, 48}}
\* the slowest bpm: one tick every 22 or 23 steps
PnSlowBpms == {1}

\* the arguments of one call: the pending notes, the length and the bpm
PnInit ==
    /\ \/ pn_notes \in SeqsUpTo(PnAlphabet, MaxNotes) /\ pn_bpm \in PnBpms
       \/ pn_notes \in PnOrnaments /\ pn_bpm \in PnBpms \cup PnSlowBpms
    /\ pn_length \in 1..MaxLength
    /\ pn_result = PnOk(<<>>)
    /\ pn_pc = "call"

\* process_notes(notes, length, messages, bpm) on an empty messages array
PnProcess ==
    /\ pn_pc = "call"
    /\ pn_result' = process_notes(pn_notes, pn_length, pn_bpm)
    /\ pn_pc' = "done"
    /\ UNCHANGED <<pn_notes, pn_length, pn_bpm>>
    /\ UNCHANGED pn_frame


(***************************************************************************)
(* Track alignment (level_loader.ts 1018-1112)                             *)
(***************************************************************************)
RECURSIVE NextTick(_, _)
\* the inner while loops of calculate_track_length_diff (1026-1034, 1035-1043):
\* from index a (1-based) find the next Delay with a value other than 0 and take
\* one tick from it; hit is FALSE when the messages are exhausted
NextTick(msg, a) ==
    IF a > Len(msg) THEN [msg |-> msg, a |-> a, hit |-> FALSE]
    ELSE IF msg[a].value # 0 /\ msg[a].type = 2
    THEN [msg |-> [msg EXCEPT ![a] = Delay(msg[a].value - 1)], a |-> a, hit |-> TRUE]
    ELSE NextTick(msg, a + 1)

\* the condition of the outer while loop (1025); a thrown walk has left the loop
TrackDiffRunning(st) ==
    ~st.thrown /\ (st.a <= Len(st.msg1) \/ st.b <= Len(st.msg2))

\* one pass of the outer while loop of calculate_track_length_diff (1026-1046):
\* a tick is taken from each side that still has one, then the overflow test
TrackDiffStep(st) ==
    IF ~TrackDiffRunning(st) THEN st
    ELSE LET s1 == NextTick(st.msg1, st.a)
             s2 == NextTick(st.msg2, st.b)
             d == st.diff + (IF s1.hit THEN 1 ELSE 0) - (IF s2.hit THEN 1 ELSE 0)
         IN  [msg1 |-> s1.msg, msg2 |-> s2.msg, a |-> s1.a, b |-> s2.a, diff |-> d,
              thrown |-> (d > 268435455 \/ d < -268435455)]

RECURSIVE TrackDiffPasses(_, _)
\* n passes of the loop from st, in order (a pass after the loop has ended changes
\* nothing); the passes are grouped in halves so that a walk of several hundred
\* ticks is evaluated with a shallow stack
TrackDiffPasses(st, n) ==
    IF n = 0 THEN st
    ELSE IF n = 1 THEN TrackDiffStep(st)
    ELSE CHOOSE r \in {TrackDiffPasses(mid, n - (n \div 2)) :
                          mid \in {TrackDiffPasses(st, n \div 2)}} : TRUE

RECURSIVE TrackDiffLoop(_)
\* the outer while loop of calculate_track_length_diff (1025-1047): passes until
\* the loop condition fails
TrackDiffLoop(st) ==
    IF ~TrackDiffRunning(st) THEN [thrown |-> st.thrown, diff |-> st.diff]
    ELSE CHOOSE r \in {TrackDiffLoop(nx) :
                          nx \in {TrackDiffPasses(st, 1 + TotalDelay(st.msg1) + TotalDelay(st.msg2))}} : TRUE

\* a mutated difference that compares the message counts, not the ticks
calculate_track_length_diff_count(messages1, messages2) ==
    [thrown |-> FALSE, diff |-> Len(messages1) - Len(messages2)]

calculate_track_length_diff(messages1, messages2) ==
    TrackDiffLoop([msg1 |-> messages1, msg2 |-> messages2, a |-> 1, b |-> 1, diff |-> 0,
                   thrown |-> FALSE])

\* the backward loop with the partly used Delay zeroed as well (1066-1068 without
\* the remainder written back)
RECURSIVE ShrinkBackward_whole(_, _, _)

ShrinkBackward_whole(messages, i, remaining) ==
    IF ~(i > 0 /\ remaining > 0) THEN [msgs |-> messages, remaining |-> remaining]
    ELSE IF messages[i].type = 2
    THEN LET diff == remaining - messages[i].value
         IN  ShrinkBackward_whole([messages EXCEPT ![i] = Delay(0)], i - 1,
                                  IF diff >= 0 THEN diff ELSE 0)
    ELSE ShrinkBackward_whole(messages, i - 1, remaining)

\* the loop run forward from the first message (index Len - i + 1 in place of i)
RECURSIVE ShrinkBackward_forward(_, _, _)

ShrinkBackward_forward(messages, i, remaining) ==
    IF ~(i > 0 /\ remaining > 0) THEN [msgs |-> messages, remaining |-> remaining]
    ELSE LET j == Len(messages) - i + 1
         IN  IF messages[j].type = 2
             THEN LET diff == remaining - messages[j].value
                  IN  IF diff >= 0
                      THEN ShrinkBackward_forward([messages EXCEPT ![j] = Delay(0)], i - 1, diff)
                      ELSE ShrinkBackward_forward([messages EXCEPT ![j] = Delay(-diff)], i - 1, 0)
             ELSE ShrinkBackward_forward(messages, i - 1, remaining)

RECURSIVE ShrinkBackward(_, _, _)
\* the backward loop of shrink_track (1059-1070); i is the 1-based index
ShrinkBackward(messages, i, remaining) ==
    IF ~(i > 0 /\ remaining > 0) THEN [msgs |-> messages, remaining |-> remaining]
    ELSE IF messages[i].type = 2
    THEN LET diff == remaining - messages[i].value
         IN  IF diff >= 0
             THEN ShrinkBackward([messages EXCEPT ![i] = Delay(0)], i - 1, diff)
             ELSE ShrinkBackward([messages EXCEPT ![i] = Delay(-diff)], i - 1, 0)
    ELSE ShrinkBackward(messages, i - 1, remaining)

RECURSIVE FirstMatch(_, _, _, _)
\* the for loop over note_on_stack (1084-1090): the first stacked index k still
\* holding a NoteOn of pitch v, or 0
FirstMatch(messages, stack, k, v) ==
    IF k > Len(stack) THEN 0
    ELSE IF messages[stack[k]].type = 0 /\ messages[stack[k]].value = v THEN stack[k]
    ELSE FirstMatch(messages, stack, k + 1, v)

RECURSIVE OrphanCleanup_offonly(_, _, _)
\* a clean-up that silences the NoteOff of a pair and leaves its NoteOn
OrphanCleanup_offonly(messages, i, note_on_stack) ==
    IF i > Len(messages) THEN messages
    ELSE IF messages[i].type = 2 /\ messages[i].value > 0
    THEN OrphanCleanup_offonly(messages, i + 1, <<>>)
    ELSE IF messages[i].type = 0
    THEN OrphanCleanup_offonly(messages, i + 1, Append(note_on_stack, i))
    ELSE IF messages[i].type = 1 /\ FirstMatch(messages, note_on_stack, 1, messages[i].value) # 0
    THEN OrphanCleanup_offonly([messages EXCEPT ![i] = Ignore], i + 1, note_on_stack)
    ELSE OrphanCleanup_offonly(messages, i + 1, note_on_stack)

RECURSIVE OrphanCleanup(_, _, _)
\* the clean-up loop of shrink_track (1077-1092)
OrphanCleanup(messages, i, note_on_stack) ==
    IF i > Len(messages) THEN messages
    ELSE IF messages[i].type = 2 /\ messages[i].value > 0
    THEN OrphanCleanup(messages, i + 1, <<>>)
    ELSE IF messages[i].type = 0
    THEN OrphanCleanup(messages, i + 1, Append(note_on_stack, i))
    ELSE IF messages[i].type = 1
    THEN LET on == FirstMatch(messages, note_on_stack, 1, messages[i].value)
         IN  IF on # 0
             THEN OrphanCleanup([messages EXCEPT ![i] = Ignore, ![on] = Ignore],
                                i + 1, note_on_stack)
             ELSE OrphanCleanup(messages, i + 1, note_on_stack)
    ELSE OrphanCleanup(messages, i + 1, note_on_stack)

\* shrink_track(messages, amount) (1055-1093): the messages left, or the throw
shrink_track(messages, amount) ==
    LET back == ShrinkBackward(messages, Len(messages), amount)
    IN  IF back.remaining # 0
        THEN [thrown |-> TRUE, msgs |-> back.msgs]
        ELSE [thrown |-> FALSE, msgs |-> OrphanCleanup(back.msgs, 1, <<>>)]

RECURSIVE VerifyLoop(_, _)
\* the for loop of verify_track_length (1103-1111); i is the 1-based track index
VerifyLoop(tracks, i) ==
    IF i > Len(tracks) THEN [thrown |-> FALSE, err |-> "", tracks |-> tracks]
    ELSE LET d == calculate_track_length_diff(tracks[1], tracks[i])
         IN  IF d.thrown THEN [thrown |-> TRUE, err |-> "Length overflow", tracks |-> tracks]
             ELSE IF d.diff < 0
             THEN LET sh == shrink_track(tracks[i], -d.diff)
                  IN  IF sh.thrown
                      THEN [thrown |-> TRUE, err |-> "Unable to shrink track",
                            tracks |-> [tracks EXCEPT ![i] = sh.msgs]]
                      ELSE VerifyLoop([tracks EXCEPT ![i] = sh.msgs], i + 1)
             ELSE IF d.diff > 0
             THEN VerifyLoop([tracks EXCEPT ![i] = Append(tracks[i], Delay(d.diff))], i + 1)
             ELSE VerifyLoop(tracks, i + 1)

\* verify_track_length(tracks) (1098-1112), tracks given by their messages
verify_track_length(tracks) ==
    IF Len(tracks) = 0 THEN [thrown |-> TRUE, err |-> "No tracks", tracks |-> tracks]
    ELSE VerifyLoop(tracks, 2)

\* bounds of the alignment specification: messages of the reference track (track 0)
\* and of the track aligned against it, and the largest Delay
MaxRefMsgs == 2
MaxTrackMsgs == 3
MaxDelay == 2
AlAlphabet == {NoteOn(48), NoteOff(48)} \cup {Delay(d) : d \in 0..MaxDelay}
\* what follows the second track: nothing, a third track longer than any reference,
\* or a third track holding one short note
AlThirdTracks == {<<>>, <<<<Delay(4), Delay(3)>>>>, <<<<NoteOn(52), Delay(1), NoteOff(52)>>>>}
\* the worked example: a 100-tick track against an 80-tick reference
AlExample ==
    << <<NoteOn(48), Delay(80), NoteOff(48)>>,
       <<NoteOn(48), Delay(60), NoteOff(48), NoteOn(52), Delay(40), NoteOff(52)>> >>

AlIdle ==
    /\ al_before = <<>> /\ al_pc = "idle"
    /\ al_result = [thrown |-> FALSE, err |-> "", tracks |-> <<>>]

\* the tracks of one part as parse_song passes them to verify_track_length
AlInit ==
    /\ \/ al_before = <<>>
       \/ al_before = AlExample
       \/ \E r \in SeqsUpTo(AlAlphabet, MaxRefMsgs) : al_before = <<r>>
       \/ \E r \in SeqsUpTo(AlAlphabet, MaxRefMsgs), t \in SeqsUpTo(AlAlphabet, MaxTrackMsgs),
             third \in AlThirdTracks : al_before = <<r, t>> \o third
    /\ al_result = [thrown |-> FALSE, err |-> "", tracks |-> <<>>]
    /\ al_pc = "call"

\* verify_track_length(part.tracks)
AlVerify ==
    /\ al_pc = "call"
    /\ al_result' = verify_track_length(al_before)
    /\ al_pc' = "done"
    /\ UNCHANGED al_before
    /\ UNCHANGED al_frame


(***************************************************************************)
(* Numbers that are not integers (baseBeats, tps, height multipliers, bpm, *)
(* seconds) are exact fractions <<numerator, denominator>> in lowest terms *)
(* with a positive denominator.                                            *)
(***************************************************************************)
RECURSIVE Gcd(_, _)
Gcd(a, b) == IF b = 0 THEN a ELSE Gcd(b, a % b)

Abs(x) == IF x < 0 THEN -x ELSE x

Sign(x) == IF x < 0 THEN -1 ELSE IF x > 0 THEN 1 ELSE 0

\* the fraction n/d in lowest terms; a zero denominator gives <<1, 0>>, <<-1, 0>> or
\* <<0, 0>>, standing for Infinity, -Infinity and NaN
Rat(n, d) ==
    IF d = 0 THEN <<Sign(n), 0>>
    ELSE LET g == Gcd(Abs(n), Abs(d))
         IN  <<Sign(d) * (n \div g), Sign(d) * (d \div g)>>

RatInt(n) == <<n, 1>>
RatAdd(x, y) == Rat(x[1] * y[2] + y[1] * x[2], x[2] * y[2])
RatSub(x, y) == Rat(x[1] * y[2] - y[1] * x[2], x[2] * y[2])
RatMul(x, y) == Rat(x[1] * y[1], x[2] * y[2])
RatDiv(x, y) == Rat(x[1] * y[2], x[2] * y[1])
RatLe(x, y) == x[1] * y[2] <= y[1] * x[2]
RatLt(x, y) == x[1] * y[2] < y[1] * x[2]

(***************************************************************************)
(* Strings are sequences of one-character strings.                         *)
(***************************************************************************)
Digits == {"0", "1", "2", "3", "4", "5", "6", "7", "8", "9"}

\* parseInt of one digit
DigitValue(c) ==
    CASE c = "0" -> 0 [] c = "1" -> 1 [] c = "2" -> 2 [] c = "3" -> 3 [] c = "4" -> 4
      [] c = "5" -> 5 [] c = "6" -> 6 [] c = "7" -> 7 [] c = "8" -> 8 [] c = "9" -> 9

\* the white space of the model: the blank and the line feed
WhiteSpace == {" ", "\n"}

\* the characters the . of a regular expression does not match
LineTerminators == {"\n"}

RECURSIVE TrimLeft(_)
TrimLeft(str) == IF str # <<>> /\ Head(str) \in WhiteSpace THEN TrimLeft(Tail(str)) ELSE str

RECURSIVE TrimRight(_)
TrimRight(str) ==
    IF str # <<>> /\ str[Len(str)] \in WhiteSpace
    THEN TrimRight(SubSeq(str, 1, Len(str) - 1)) ELSE str

\* String.prototype.trim
Trim(str) == TrimRight(TrimLeft(str))

(***************************************************************************)
(* Row-layout notation (level_loader.ts 36-265)                            *)
(***************************************************************************)
DURATION_MAP == [H |-> 256, I |-> 128, J |-> 64, K |-> 32, L |-> 16, M |-> 8, N |-> 4, O |-> 2, P |-> 1]
REST_MAP == [Q |-> 256, R |-> 128, S |-> 64, T |-> 32, U |-> 16, V |-> 8, W |-> 4, X |-> 2, Y |-> 1]

RECURSIVE extract_duration_letters(_)
extract_duration_letters(str) ==
    IF str = <<>> THEN 0
    ELSE (IF Head(str) \in DOMAIN DURATION_MAP THEN DURATION_MAP[Head(str)] ELSE 0)
         + extract_duration_letters(Tail(str))

RECURSIVE extract_rest_letters(_)
extract_rest_letters(str) ==
    IF str = <<>> THEN 0
    ELSE (IF Head(str) \in DOMAIN REST_MAP THEN REST_MAP[Head(str)] ELSE 0)
         + extract_rest_letters(Tail(str))

\* the loop alone, without the final length test
is_only_rest_letters_vacuous(str) ==
    \A i \in 1..Len(str) : str[i] \in DOMAIN REST_MAP

is_only_rest_letters(str) ==
    /\ \A i \in 1..Len(str) : str[i] \in DOMAIN REST_MAP
    /\ Len(str) > 0

\* trimmed.match(/^(\d)<(.+)>$/)
group_match(trimmed) ==
    /\ Len(trimmed) >= 4
    /\ trimmed[1] \in Digits
    /\ trimmed[2] = "<"
    /\ trimmed[Len(trimmed)] = ">"
    /\ \A i \in 3..(Len(trimmed) - 1) : trimmed[i] \notin LineTerminators

parse_component(component) ==
    LET trimmed == Trim(component)
    IN  IF group_match(trimmed)
        THEN [duration |-> extract_duration_letters(SubSeq(trimmed, 3, Len(trimmed) - 1)),
              original_type |-> IF DigitValue(trimmed[1]) = 5 THEN "DOUBLE" ELSE "SINGLE"]
        ELSE IF is_only_rest_letters(trimmed)
        THEN [duration |-> extract_rest_letters(trimmed), original_type |-> "EMPTY"]
        ELSE [duration |-> extract_duration_letters(trimmed), original_type |-> "SINGLE"]

RECURSIVE GroupScan_flat(_, _, _, _)
\* a scan that ends the group at the first >, whatever was opened inside it
GroupScan_flat(score, i, depth, group_str) ==
    IF i > Len(score) THEN [i |-> i, group_str |-> group_str]
    ELSE IF score[i] = ">" THEN [i |-> i + 1, group_str |-> Append(group_str, score[i])]
    ELSE GroupScan_flat(score, i + 1, depth, Append(group_str, score[i]))

RECURSIVE GroupScan(_, _, _, _)
\* the inner while loop of split_score (131-137): from 1-based index i, copy the
\* characters to group_str until the depth of < > returns to 0
GroupScan(score, i, depth, group_str) ==
    IF i > Len(score) THEN [i |-> i, group_str |-> group_str]
    ELSE LET d == IF score[i] = "<" THEN depth + 1
                  ELSE IF score[i] = ">" THEN depth - 1 ELSE depth
         IN  IF d = 0 THEN [i |-> i + 1, group_str |-> Append(group_str, score[i])]
             ELSE GroupScan(score, i + 1, d, Append(group_str, score[i]))

RECURSIVE SplitLoop(_, _, _, _)
\* the while loop of split_score (116-154) and the final push (156-158)
SplitLoop(score, i, current, components) ==
    IF i > Len(score)
    THEN IF Trim(current) # <<>> THEN Append(components, Trim(current)) ELSE components
    ELSE IF score[i] = "<"
    THEN IF Len(current) > 0 /\ current[Len(current)] \in Digits
         THEN LET digit == current[Len(current)]
                  rest == SubSeq(current, 1, Len(current) - 1)
                  pushed == IF Trim(rest) # <<>> THEN Append(components, Trim(rest))
                            ELSE components
                  cur == IF Trim(rest) # <<>> THEN <<>> ELSE rest
                  g == GroupScan(score, i, 0, <<digit>>)
                  after == IF g.i <= Len(score) /\ score[g.i] = "," THEN g.i + 1 ELSE g.i
              IN  SplitLoop(score, after, cur, Append(pushed, g.group_str))
         ELSE SplitLoop(score, i + 1, Append(current, score[i]), components)
    ELSE IF score[i] = "," \/ score[i] = ";"
    THEN IF Trim(current) # <<>>
         THEN SplitLoop(score, i + 1, <<>>, Append(components, Trim(current)))
         ELSE SplitLoop(score, i + 1, current, components)
    ELSE SplitLoop(score, i + 1, Append(current, score[i]), components)

split_score(score) == SplitLoop(score, 1, <<>>, <<>>)

parse_score(score) ==
    LET component_strings == split_score(score)
    IN  [i \in 1..Len(component_strings) |-> parse_component(component_strings[i])]

\* the running tick sum before component i
StartOf(components, i) == SumSeq([k \in 1..(i - 1) |-> components[k].duration])

build_timeline(components) ==
    [i \in 1..Len(components) |->
        [start |-> StartOf(components, i),
         end |-> StartOf(components, i) + components[i].duration,
         index |-> i,
         is_rest |-> components[i].original_type = "EMPTY"]]

\* an overlap test on closed windows: windows that only touch overlap too
ranges_overlap_closed(start1, end1, start2, end2) == start1 <= end2 /\ start2 <= end1

ranges_overlap(start1, end1, start2, end2) == start1 < end2 /\ start2 < end1

\* the set of (1-based) indices of the primary rests that a secondary note overlaps
blend_tracks(primary_components, primary_timeline, secondary_scores) ==
    {prim_entry.index : prim_entry \in
        {primary_timeline[k] : k \in
            {k \in 1..Len(primary_timeline) :
                /\ primary_timeline[k].is_rest
                /\ \E s \in 1..Len(secondary_scores) :
                      LET secondary_timeline == build_timeline(parse_score(secondary_scores[s]))
                      IN  \E j \in 1..Len(secondary_timeline) :
                             /\ ~secondary_timeline[j].is_rest
                             /\ ranges_overlap(primary_timeline[k].start, primary_timeline[k].end,
                                               secondary_timeline[j].start, secondary_timeline[j].end)}}}

\* mutation of generate_results: a tile's height is always duration / unit_divisor
generate_results_scaled(components, blended_indices, unit_divisor) ==
    [index \in 1..Len(components) |->
        LET comp == components[index]
            scaled == RatDiv(RatInt(comp.duration), unit_divisor)
        IN  IF comp.original_type = "EMPTY" /\ index \in blended_indices
            THEN [type |-> "SINGLE", height_multiplier |-> scaled]
            ELSE IF comp.original_type = "DOUBLE"
            THEN [type |-> "DOUBLE", height_multiplier |-> RatInt(1)]
            ELSE IF comp.original_type = "EMPTY"
            THEN [type |-> "EMPTY", height_multiplier |-> scaled]
            ELSE [type |-> "SINGLE", height_multiplier |-> scaled]]

\* unit_divisor is a fraction; height_multiplier is a fraction
generate_results(components, blended_indices, unit_divisor) ==
    [index \in 1..Len(components) |->
        LET comp == components[index]
            scaled == IF RatLe(RatInt(comp.duration), unit_divisor) THEN RatInt(1)
                      ELSE RatDiv(RatInt(comp.duration), unit_divisor)
        IN  IF comp.original_type = "EMPTY" /\ index \in blended_indices
            THEN [type |-> "SINGLE", height_multiplier |-> scaled]
            ELSE IF comp.original_type = "DOUBLE"
            THEN [type |-> "DOUBLE", height_multiplier |-> RatInt(1)]
            ELSE IF comp.original_type = "EMPTY"
            THEN [type |-> "EMPTY",
                  height_multiplier |-> RatDiv(RatInt(comp.duration), unit_divisor)]
            ELSE [type |-> "SINGLE", height_multiplier |-> scaled]]

\* process_music({id, base_beats, scores}); base_beats is a positive fraction
process_music(base_beats, scores) ==
    LET unit_divisor == RatMul(RatInt(32), base_beats)
    IN  IF Len(scores) = 0 THEN <<>>
        ELSE LET primary_components == parse_score(scores[1])
                 primary_timeline == build_timeline(primary_components)
                 secondary_scores == SubSeq(scores, 2, Len(scores))
                 blended_indices == blend_tracks(primary_components, primary_timeline,
                                                 secondary_scores)
             IN  generate_results(primary_components, blended_indices, unit_divisor)


(***************************************************************************)
(* Timeline notation (midi_types NOTE_TO_MIDI / BASEBEATS_MAP,             *)
(* level_loader.ts 559-869)                                                *)
(***************************************************************************)
NOTE_TO_MIDI ==
    ("c5" :> 108) @@ ("b4" :> 107) @@ ("#a4" :> 106) @@ ("a4" :> 105) @@ ("#g4" :> 104) @@
    ("g4" :> 103) @@ ("#f4" :> 102) @@ ("f4" :> 101) @@ ("e4" :> 100) @@ ("#d4" :> 99) @@
    ("d4" :> 98) @@ ("#c4" :> 97) @@ ("c4" :> 96) @@ ("b3" :> 95) @@ ("#a3" :> 94) @@
    ("a3" :> 93) @@ ("#g3" :> 92) @@ ("g3" :> 91) @@ ("#f3" :> 90) @@ ("f3" :> 89) @@
    ("e3" :> 88) @@ ("#d3" :> 87) @@ ("d3" :> 86) @@ ("#c3" :> 85) @@ ("c3" :> 84) @@
    ("b2" :> 83) @@ ("#a2" :> 82) @@ ("a2" :> 81) @@ ("#g2" :> 80) @@ ("g2" :> 79) @@
    ("#f2" :> 78) @@ ("f2" :> 77) @@ ("e2" :> 76) @@ ("#d2" :> 75) @@ ("d2" :> 74) @@
    ("#c2" :> 73) @@ ("c2" :> 72) @@ ("b1" :> 71) @@ ("#a1" :> 70) @@ ("a1" :> 69) @@
    ("#g1" :> 68) @@ ("g1" :> 67) @@ ("#f1" :> 66) @@ ("f1" :> 65) @@ ("e1" :> 64) @@
    ("#d1" :> 63) @@ ("d1" :> 62) @@ ("#c1" :> 61) @@ ("c1" :> 60) @@ ("b" :> 59) @@
    ("#a" :> 58) @@ ("a" :> 57) @@ ("#g" :> 56) @@ ("g" :> 55) @@ ("#f" :> 54) @@
    ("f" :> 53) @@ ("e" :> 52) @@ ("#d" :> 51) @@ ("d" :> 50) @@ ("#c" :> 49) @@ ("c" :> 48) @@
    ("B-1" :> 47) @@ ("#A-1" :> 46) @@ ("A-1" :> 45) @@ ("#G-1" :> 44) @@ ("G-1" :> 43) @@
    ("#F-1" :> 42) @@ ("F-1" :> 41) @@ ("E-1" :> 40) @@ ("#D-1" :> 39) @@ ("D-1" :> 38) @@
    ("#C-1" :> 37) @@ ("C-1" :> 36) @@ ("B-2" :> 35) @@ ("#A-2" :> 34) @@ ("A-2" :> 33) @@
    ("#G-2" :> 32) @@ ("G-2" :> 31) @@ ("#F-2" :> 30) @@ ("F-2" :> 29) @@ ("E-2" :> 28) @@
    ("#D-2" :> 27) @@ ("D-2" :> 26) @@ ("#C-2" :> 25) @@ ("C-2" :> 24) @@ ("B-3" :> 23) @@
    ("#A-3" :> 22) @@ ("A-3" :> 21) @@ ("mute" :> 1) @@ ("empty" :> 1)

BASEBEATS_MAP ==
    ("15" :> 1) @@ ("7.5" :> 2) @@ ("5" :> 3) @@ ("3.75" :> 4) @@ ("3" :> 5) @@ ("2.5" :> 6) @@
    ("1.875" :> 8) @@ ("1.5" :> 10) @@ ("1.25" :> 12) @@ ("1" :> 15) @@ ("0.9375" :> 16) @@
    ("0.75" :> 20) @@ ("0.625" :> 24) @@ ("0.5" :> 30) @@ ("0.46875" :> 32) @@
    ("0.375" :> 40) @@ ("0.3125" :> 48) @@ ("0.25" :> 60) @@ ("0.234375" :> 64) @@
    ("0.1875" :> 80) @@ ("0.15625" :> 96) @@ ("0.125" :> 120) @@ ("0.1171875" :> 128) @@
    ("0.09375" :> 160) @@ ("0.078125" :> 192) @@ ("0.0625" :> 240) @@ ("0.05859375" :> 256) @@
    ("0.046875" :> 320) @@ ("0.0390625" :> 384) @@ ("0.03125" :> 480) @@
    ("0.029296875" :> 512) @@ ("0.0234375" :> 640) @@ ("0.01953125" :> 768) @@
    ("0.015625" :> 960)

RECURSIVE Join(_)
\* the string whose characters are the elements of str
Join(str) == IF str = <<>> THEN "" ELSE Head(str) \o Join(Tail(str))

\* NOTE_TO_MIDI is an object literal, so `note_name in NOTE_TO_MIDI` (560) also
\* holds for the members it inherits from Object.prototype, and the lookup then
\* gives a function or an object.  Each is coded as a number above every
\* pitch: the tests the code makes on a note (=== 0, === 1, === a marker 2..6,
\* < 20, >= 21 && <= 108) come out on it as they do on a value that is no number.
ObjectPrototype ==
    ("constructor" :> 1001) @@ ("toString" :> 1002) @@ ("valueOf" :> 1003) @@
    ("hasOwnProperty" :> 1004) @@ ("isPrototypeOf" :> 1005) @@
    ("propertyIsEnumerable" :> 1006) @@ ("toLocaleString" :> 1007) @@ ("__proto__" :> 1008)

get_note_number(note_name) ==
    IF note_name \in DOMAIN NOTE_TO_MIDI THEN NOTE_TO_MIDI[note_name]
    ELSE IF note_name \in DOMAIN ObjectPrototype THEN ObjectPrototype[note_name]
    ELSE 0

RECURSIVE IntToString(_)
IntToString(n) ==
    LET d == CASE n % 10 = 0 -> "0" [] n % 10 = 1 -> "1" [] n % 10 = 2 -> "2"
               [] n % 10 = 3 -> "3" [] n % 10 = 4 -> "4" [] n % 10 = 5 -> "5"
               [] n % 10 = 6 -> "6" [] n % 10 = 7 -> "7" [] n % 10 = 8 -> "8"
               [] n % 10 = 9 -> "9"
    IN  IF n < 10 THEN d ELSE IntToString(n \div 10) \o d

RECURSIVE FractionDigits(_, _, _)
\* the decimal digits of r/d (0 <= r < d), at most k of them
FractionDigits(r, d, k) ==
    IF r = 0 \/ k = 0 THEN ""
    ELSE IntToString((10 * r) \div d) \o FractionDigits((10 * r) % d, d, k - 1)

\* String(x) of a non-negative number x = <<n, d>>: exact for every number whose
\* decimal expansion ends within 17 digits, which covers all keys of BASEBEATS_MAP
NumberToString(x) ==
    IF x[2] = 1 THEN IntToString(x[1])
    ELSE IntToString(x[1] \div x[2]) \o "." \o FractionDigits(x[1] % x[2], x[2], 17)

get_base_beats_multiplier(base_beats_str) ==
    IF base_beats_str \in DOMAIN BASEBEATS_MAP
    THEN [thrown |-> FALSE, value |-> BASEBEATS_MAP[base_beats_str]]
    ELSE [thrown |-> TRUE, value |-> 0]

RECURSIVE LengthLoop_unchecked(_, _, _, _)
\* the loop without the test against 0xffffff
LengthLoop_unchecked(str, base_beats, delay, letters) ==
    IF str = <<>> THEN [thrown |-> FALSE, value |-> delay]
    ELSE IF Head(str) \notin DOMAIN letters THEN [thrown |-> FALSE, value |-> 0]
    ELSE LengthLoop_unchecked(Tail(str), base_beats,
                              delay + letters[Head(str)] * base_beats, letters)

RECURSIVE LengthLoop(_, _, _, _)
\* the loop shared by get_length (table DURATION_MAP) and get_rest (REST_MAP):
\* a character outside the table makes the result 0, a sum above 0xffffff throws
LengthLoop(str, base_beats, delay, letters) ==
    IF str = <<>> THEN [thrown |-> FALSE, value |-> delay]
    ELSE IF Head(str) \notin DOMAIN letters THEN [thrown |-> FALSE, value |-> 0]
    ELSE LET nd == delay + letters[Head(str)] * base_beats
         IN  IF nd > 16777215 THEN [thrown |-> TRUE, value |-> 0]
             ELSE LengthLoop(Tail(str), base_beats, nd, letters)

get_length(str, base_beats) == LengthLoop(str, base_beats, 0, DURATION_MAP)
get_rest(str, base_beats) == LengthLoop(str, base_beats, 0, REST_MAP)

\* the characters that end a token (795-811)
TokenDelimiters ==
    {".", "(", ")", "~", "[", "]", ",", ";", "<", ">", "@", "%", "!", "$", "^", "&"}

RECURSIVE TokenEnd(_, _)
\* index of the last character of the token that starts at index i (790-816)
TokenEnd(score, i) ==
    IF i + 1 > Len(score) \/ score[i + 1] \in TokenDelimiters THEN i
    ELSE TokenEnd(score, i + 1)

OperatorChars == {".", "~", "$", "@", "%", "!", "^", "&"}

\* the code pushed on notes for an operator character; 0 for "." (703-743)
OperatorCode(char) ==
    CASE char = "." -> 0
      [] char \in {"~", "$"} -> 2
      [] char = "@" -> 3
      [] char = "%" -> 4
      [] char = "!" -> 5
      [] char \in {"^", "&"} -> 6

PtThrow(e) == [thrown |-> TRUE, err |-> e, messages |-> <<>>]

RECURSIVE ParseTrackLoop(_, _, _, _, _, _, _)
\* the for loop of parse_track (700-859) from index i, and the final check (861-863)
ParseTrackLoop(score, bpm, base_beats, i, mode, notes, messages) ==
    IF i > Len(score)
    THEN IF mode # 0 /\ mode # 5 THEN PtThrow("Incomplete score string")
         ELSE [thrown |-> FALSE, err |-> "", messages |-> messages]
    ELSE LET char == score[i]
             Go(m, ns) == ParseTrackLoop(score, bpm, base_beats, i + 1, m, ns, messages)
         IN
         IF char \in OperatorChars
         THEN IF mode = 2
              THEN Go(1, IF char = "." THEN notes ELSE Append(notes, OperatorCode(char)))
              ELSE PtThrow("Unexpected")
         ELSE IF char = "(" THEN (IF mode = 0 THEN Go(1, notes) ELSE PtThrow("Unexpected"))
         ELSE IF char = ")" THEN (IF mode = 2 THEN Go(3, notes) ELSE PtThrow("Unexpected"))
         ELSE IF char = "[" THEN (IF mode = 3 THEN Go(4, notes) ELSE PtThrow("Unexpected"))
         ELSE IF char = "]" THEN (IF mode = 6 THEN Go(5, notes) ELSE PtThrow("Unexpected"))
         ELSE IF char = "," \/ char = ";"
         THEN IF mode = 5 \/ mode = 0 THEN Go(0, notes) ELSE PtThrow("Unexpected")
         ELSE IF char = " " THEN Go(mode, notes)
         ELSE IF (char = "<" \/ char \in Digits) /\ mode = 0 THEN Go(mode, notes)
         ELSE IF (char \in {">", "{", "}"} \/ char \in Digits) /\ mode = 5 THEN Go(mode, notes)
         ELSE LET last == TokenEnd(score, i)
                  temp == SubSeq(score, i, last)
                  note == get_note_number(Join(temp))
                  length == get_length(temp, base_beats)
                  rest == get_rest(temp, base_beats)
                  Resume(m, ns, ms) == ParseTrackLoop(score, bpm, base_beats, last + 1, m, ns, ms)
              IN  IF length.thrown \/ rest.thrown THEN PtThrow("Length overflow")
                  ELSE IF note # 0
                  THEN LET ns == IF note # 1 THEN Append(notes, note) ELSE notes
                       IN  IF mode = 0 THEN Resume(3, ns, messages)
                           ELSE IF mode = 1 THEN Resume(2, ns, messages)
                           ELSE PtThrow("Unexpected token")
                  ELSE IF length.value # 0
                  THEN IF mode # 4 THEN PtThrow("Unexpected token")
                       ELSE LET r == process_notes(notes, length.value, bpm)
                            IN  IF r.thrown THEN PtThrow(r.err)
                                ELSE Resume(6, <<>>, messages \o r.msgs)
                  ELSE IF rest.value # 0
                  THEN IF mode = 0 THEN Resume(5, notes, Append(messages, Delay(rest.value)))
                       ELSE IF mode = 1 THEN Resume(2, notes, messages)
                       ELSE PtThrow("Unexpected token")
                  ELSE PtThrow("Couldn't parse")

parse_track(score, bpm, base_beats) == ParseTrackLoop(score, bpm, base_beats, 1, 0, <<>>, <<>>)


(***************************************************************************)
(* JSON values.  A value is [t, num, str]: t is its typeof ("undefined"    *)
(* for an absent property), num its number, str its string.  A music entry *)
(* is [t, id, bpm, baseBeats, scores] with t = "object" or "null"; scores  *)
(* is [t, items] with t = "array" when it is an array of score strings.    *)
(* The document is [t, baseBpm, musics] with musics = [t, items].  The     *)
(* bpm and baseBpm numbers of the model are integers (denominator 1).      *)
(***************************************************************************)
JNum(x) == [t |-> "number", num |-> x, str |-> ""]
JStr(str) == [t |-> "string", num |-> <<0, 1>>, str |-> str]
JUndef == [t |-> "undefined", num |-> <<0, 1>>, str |-> ""]
JArray(items) == [t |-> "array", items |-> items]
JNotArray(t) == [t |-> t, items |-> <<>>]
JEntry(id, bpm, baseBeats, scores) ==
    [t |-> "object", id |-> id, bpm |-> bpm, baseBeats |-> baseBeats, scores |-> scores]
JNullEntry ==
    [t |-> "null", id |-> JUndef, bpm |-> JUndef, baseBeats |-> JUndef,
     scores |-> JNotArray("undefined")]
JDocument(baseBpm, musics) == [t |-> "object", baseBpm |-> baseBpm, musics |-> musics]
\* a document that is not an object with properties: null, a number, a string, []
JOther(t) == [t |-> t, baseBpm |-> JUndef, musics |-> JNotArray("undefined")]

\* String(v) for a number or a string
JsString(v) == IF v.t = "string" THEN v.str ELSE NumberToString(v.num)

(***************************************************************************)
(* Song parsing and timeline conversion (level_loader.ts 1119-1458)        *)
(***************************************************************************)
RECURSIVE TracksLoop(_, _, _, _, _)

\* one pass of the loop body of TracksLoop with the outcome of parse_track (1155-1163)
TracksNext(scores, bpm, base_beats, t, tracks, track) ==
    IF track.thrown
    THEN [thrown |-> TRUE, err |-> track.err, tracks |-> <<>>, parsed |-> t]
    ELSE TracksLoop(scores, bpm, base_beats, t + 1, Append(tracks, track.messages))

\* the loop over music.scores of parse_song (1152-1164); parsed counts the calls
\* of parse_track
TracksLoop(scores, bpm, base_beats, t, tracks) ==
    IF t > Len(scores) THEN [thrown |-> FALSE, err |-> "", tracks |-> tracks, parsed |-> Len(scores)]
    ELSE TracksNext(scores, bpm, base_beats, t, tracks, parse_track(scores[t], bpm, base_beats))

\* the effective bpm of a part (1131-1147): the entry's bpm, else base_bpm, times the
\* multiplier; 120 times the multiplier when that is not positive
part_bpm(music, base_bpm, base_beats_multiplier) ==
    LET music_bpm == IF music.bpm.t # "undefined" THEN music.bpm.num[1] ELSE base_bpm
        calculated_bpm == music_bpm * base_beats_multiplier
    IN  IF calculated_bpm <= 0 THEN 120 * base_beats_multiplier ELSE calculated_bpm

PartThrow(e, n) ==
    [thrown |-> TRUE, err |-> e, parsed |-> n, part |-> [bpm |-> 0, base_beats |-> 0, tracks |-> <<>>]]

\* the end of the try block of one part (1166-1168), v the outcome of verify_track_length
PartVerified(bpm, base_beats, parsed, v) ==
    IF v.thrown THEN PartThrow(v.err, parsed)
    ELSE [thrown |-> FALSE, err |-> "", parsed |-> parsed,
          part |-> [bpm |-> bpm, base_beats |-> base_beats, tracks |-> v.tracks]]

\* the part once its tracks are parsed (1152-1166), tr the outcome of TracksLoop
PartOfTracks(bpm, base_beats, tr) ==
    IF tr.thrown THEN PartThrow(tr.err, tr.parsed)
    ELSE PartVerified(bpm, base_beats, tr.parsed, verify_track_length(tr.tracks))

\* the part once its multiplier is looked up (1128-1150), m the outcome of the lookup
PartOfMultiplier(music, base_bpm, m) ==
    IF m.thrown THEN PartThrow("Unknown baseBeats value", 0)
    ELSE PartOfTracks(part_bpm(music, base_bpm, m.value), m.value,
                      TracksLoop(music.scores.items, part_bpm(music, base_bpm, m.value),
                                 m.value, 1, <<>>))

\* the try block of one part of parse_song (1126-1168)
parse_part(music, base_bpm) ==
    PartOfMultiplier(music, base_bpm, get_base_beats_multiplier(JsString(music.baseBeats)))

RECURSIVE PartsLoop_skip(_, _, _, _, _)

PartsNext_skip(musics, base_bpm, p, parts, parsed, r) ==
    IF r.thrown THEN PartsLoop_skip(musics, base_bpm, p + 1, parts, parsed + r.parsed)
    ELSE PartsLoop_skip(musics, base_bpm, p + 1, Append(parts, r.part), parsed + r.parsed)

\* mutation of PartsLoop: a part that fails is left out and the loop goes on
PartsLoop_skip(musics, base_bpm, p, parts, parsed) ==
    IF p > Len(musics) THEN [thrown |-> FALSE, err |-> "", parts |-> parts, parsed |-> parsed]
    ELSE PartsNext_skip(musics, base_bpm, p, parts, parsed, parse_part(musics[p], base_bpm))

RECURSIVE PartsLoop(_, _, _, _, _)

\* one pass of the loop body of PartsLoop with the outcome r of the part (1168-1174)
PartsNext(musics, base_bpm, p, parts, parsed, r) ==
    IF r.thrown
    THEN [thrown |-> TRUE, err |-> r.err, parts |-> <<>>, parsed |-> parsed + r.parsed]
    ELSE PartsLoop(musics, base_bpm, p + 1, Append(parts, r.part), parsed + r.parsed)

\* the loop over musics of parse_song (1125-1175)
PartsLoop(musics, base_bpm, p, parts, parsed) ==
    IF p > Len(musics) THEN [thrown |-> FALSE, err |-> "", parts |-> parts, parsed |-> parsed]
    ELSE PartsNext(musics, base_bpm, p, parts, parsed, parse_part(musics[p], base_bpm))

parse_song(musics, base_bpm) == PartsLoop(musics, base_bpm, 1, <<>>, 0)

MaxOf(S) == IF S = {} THEN 0 ELSE CHOOSE m \in S : \A o \in S : o <= m

\* a padding that copies the last track as it is, notes included
align_tracks_across_parts_copy(parts) ==
    [k \in 1..Len(parts) |->
        [parts[k] EXCEPT !.tracks =
            [j \in 1..MaxOf({Len(parts[q].tracks) : q \in 1..Len(parts)}) |->
                IF j <= Len(parts[k].tracks) THEN parts[k].tracks[j]
                ELSE parts[k].tracks[Len(parts[k].tracks)]]]]

\* every part gets copies of its last track, notes silenced, up to the largest
\* track count (every part has at least one track after parse_song)
align_tracks_across_parts(parts) ==
    LET max_tracks == MaxOf({Len(parts[k].tracks) : k \in 1..Len(parts)})
        Silenced(messages) ==
            [k \in 1..Len(messages) |->
                IF messages[k].type < 2 THEN Msg(3, messages[k].value) ELSE messages[k]]
    IN  [k \in 1..Len(parts) |->
            LET part == parts[k]
                n == Len(part.tracks)
            IN  [part EXCEPT !.tracks =
                    [j \in 1..max_tracks |->
                        IF j <= n THEN part.tracks[j] ELSE Silenced(part.tracks[n])]]]

\* track_duration assigned, not accumulated: the last Delay of a track counts alone
calculate_part_duration_last(tracks) ==
    MaxOf({LET delays == {i \in 1..Len(tracks[k]) : tracks[k][i].type = 2}
           IN  IF delays = {} THEN 0
               ELSE tracks[k][CHOOSE i \in delays : \A j \in delays : j <= i].value :
           k \in 1..Len(tracks)})

calculate_part_duration(tracks) ==
    MaxOf({TotalDelay(tracks[k]) : k \in 1..Len(tracks)})

RECURSIVE TrackMessagesLoop(_, _, _, _, _)
\* the loop of process_track_messages (1340-1369); active_notes is a function
\* from note number to start ticks, out the notes pushed so far
TrackMessagesLoop(messages, k, current_ticks, active_notes, out) ==
    IF k > Len(messages) THEN out
    ELSE LET msg == messages[k]
         IN  IF msg.type = 0
             THEN TrackMessagesLoop(messages, k + 1, current_ticks,
                     [n \in DOMAIN active_notes \cup {msg.value} |->
                         IF n = msg.value THEN current_ticks ELSE active_notes[n]], out)
             ELSE IF msg.type = 1
             THEN IF msg.value \in DOMAIN active_notes
                  THEN TrackMessagesLoop(messages, k + 1, current_ticks,
                          [n \in DOMAIN active_notes \ {msg.value} |-> active_notes[n]],
                          Append(out, [midi |-> msg.value,
                                       ticks |-> active_notes[msg.value],
                                       duration_ticks |-> current_ticks - active_notes[msg.value],
                                       time |-> <<0, 1>>,
                                       duration |-> <<0, 1>>]))
                  ELSE TrackMessagesLoop(messages, k + 1, current_ticks, active_notes, out)
             ELSE IF msg.type = 2
             THEN TrackMessagesLoop(messages, k + 1, current_ticks + msg.value, active_notes, out)
             ELSE TrackMessagesLoop(messages, k + 1, current_ticks, active_notes, out)

process_track_messages(messages, start_ticks) ==
    TrackMessagesLoop(messages, 1, start_ticks, [n \in {} |-> 0], <<>>)

RECURSIVE SecondsLoop_newbpm(_, _, _, _, _, _, _)
\* a loop that prices the ticks before a tempo change at the new tempo
SecondsLoop_newbpm(ticks, tempos, ppq, i, time, current_ticks, current_bpm) ==
    IF i > Len(tempos) \/ tempos[i].ticks >= ticks
    THEN RatAdd(time, RatMul(Rat(ticks - current_ticks, ppq), RatDiv(RatInt(60), current_bpm)))
    ELSE SecondsLoop_newbpm(ticks, tempos, ppq, i + 1,
                            RatAdd(time, RatMul(Rat(tempos[i].ticks - current_ticks, ppq),
                                                RatDiv(RatInt(60), tempos[i].bpm))),
                            tempos[i].ticks, tempos[i].bpm)

RECURSIVE SecondsLoop(_, _, _, _, _, _, _)
\* the loop of ticks_to_seconds (1404-1414) and the remaining time (1417-1420)
SecondsLoop(ticks, tempos, ppq, i, time, current_ticks, current_bpm) ==
    LET Span(delta) == RatMul(Rat(delta, ppq), RatDiv(RatInt(60), current_bpm))
    IN  IF i > Len(tempos) \/ tempos[i].ticks >= ticks
        THEN RatAdd(time, Span(ticks - current_ticks))
        ELSE SecondsLoop(ticks, tempos, ppq, i + 1,
                         RatAdd(time, Span(tempos[i].ticks - current_ticks)),
                         tempos[i].ticks, tempos[i].bpm)

ticks_to_seconds(ticks, tempos, ppq) ==
    SecondsLoop(ticks, tempos, ppq, 1, <<0, 1>>, 0,
                IF Len(tempos) > 0 THEN tempos[1].bpm ELSE <<120, 1>>)

RECURSIVE InsertByTicks(_, _)
\* insertion after every element that does not compare greater: the stable order
\* of Array.prototype.sort((a, b) => a.ticks - b.ticks)
InsertByTicks(sorted, tempo) ==
    IF sorted = <<>> THEN <<tempo>>
    ELSE IF sorted[Len(sorted)].ticks <= tempo.ticks THEN Append(sorted, tempo)
    ELSE Append(InsertByTicks(SubSeq(sorted, 1, Len(sorted) - 1), tempo), sorted[Len(sorted)])

RECURSIVE SortByTicks(_)
SortByTicks(tempos) ==
    IF tempos = <<>> THEN <<>>
    ELSE InsertByTicks(SortByTicks(SubSeq(tempos, 1, Len(tempos) - 1)), tempos[Len(tempos)])

\* calculate_times (1375-1385) on tempos already sorted
calculate_times(tracks, tempos, ppq) ==
    [k \in 1..Len(tracks) |->
        [tracks[k] EXCEPT !.notes =
            [j \in 1..Len(tracks[k].notes) |->
                LET note == tracks[k].notes[j]
                    time == ticks_to_seconds(note.ticks, tempos, ppq)
                IN  [note EXCEPT !.time = time,
                                 !.duration = RatSub(ticks_to_seconds(note.ticks + note.duration_ticks,
                                                                      tempos, ppq), time)]]]]

calculate_tempo_times(tempos, ppq) ==
    [k \in 1..Len(tempos) |->
        [tempos[k] EXCEPT !.time = ticks_to_seconds(tempos[k].ticks, tempos, ppq)]]

\* mutation of PartStartTicks: the cursor is advanced before the part is emitted
PartStartTicks_after(aligned_parts, part_idx) ==
    SumSeq([k \in 1..part_idx |-> calculate_part_duration(aligned_parts[k].tracks)])

\* current_ticks at the start of part part_idx (1255, 1295-1297)
PartStartTicks(aligned_parts, part_idx) ==
    SumSeq([k \in 1..(part_idx - 1) |-> calculate_part_duration(aligned_parts[k].tracks)])

RECURSIVE NotesOfTrack(_, _, _)
\* the notes that parts 1..part_idx push on output track track_idx (1275-1292)
NotesOfTrack(aligned_parts, track_idx, part_idx) ==
    IF part_idx = 0 THEN <<>>
    ELSE NotesOfTrack(aligned_parts, track_idx, part_idx - 1)
         \o process_track_messages(aligned_parts[part_idx].tracks[track_idx],
                                   PartStartTicks(aligned_parts, part_idx))

convert_to_midi_json(parts) ==
    LET aligned_parts == align_tracks_across_parts(parts)
        ppq == 960
        pushed == [k \in 1..Len(aligned_parts) |->
                      [ticks |-> PartStartTicks(aligned_parts, k),
                       bpm |-> Rat(aligned_parts[k].bpm, 30),
                       time |-> <<0, 1>>]]
        tempos == SortByTicks(pushed)
        max_tracks == MaxOf({Len(aligned_parts[k].tracks) : k \in 1..Len(aligned_parts)})
        tracks == [t \in 1..max_tracks |->
                      [channel |-> (t - 1) % 16,
                       notes |-> NotesOfTrack(aligned_parts, t, Len(aligned_parts))]]
    IN  [ppq |-> ppq,
         tempos |-> calculate_tempo_times(tempos, ppq),
         tracks |-> calculate_times(tracks, tempos, ppq)]

NoMidi == [ppq |-> 0, tempos |-> <<>>, tracks |-> <<>>]

\* the rest of convert_raw_to_midi_json (1445-1457), song the outcome of parse_song
MidiOfSong(song) ==
    IF song.thrown
    THEN [thrown |-> TRUE, err |-> song.err, parsed |-> song.parsed, parts |-> <<>>,
          midi_json |-> NoMidi]
    ELSE [thrown |-> FALSE, err |-> "", parsed |-> song.parsed, parts |-> song.parts,
          midi_json |-> convert_to_midi_json(song.parts)]

convert_raw_to_midi_json(musics, base_bpm) == MidiOfSong(parse_song(musics, base_bpm))

(***************************************************************************)
(* The level compiler (level_loader.ts 301-329, 396-474).  JSON.parse is   *)
(* not modelled: the compiler starts from the parsed document.             *)
(***************************************************************************)
\* mutation of EntryError: a string baseBeats is let through
EntryError_lenient(music) ==
    IF music.t = "null" THEN "TypeError: cannot read properties of null"
    ELSE IF music.id.t # "number" THEN "Invalid music entry: id must be a number"
    ELSE IF music.baseBeats.t \notin {"number", "string"}
    THEN "Invalid music entry: baseBeats must be a number"
    ELSE IF music.scores.t # "array" THEN "Invalid music entry: scores must be an array"
    ELSE ""

\* the message of the error that the checks on one entry throw (317-325), "" if none;
\* reading a property of a null entry is a TypeError
EntryError(music) ==
    IF music.t = "null" THEN "TypeError: cannot read properties of null"
    ELSE IF music.id.t # "number" THEN "Invalid music entry: id must be a number"
    ELSE IF music.baseBeats.t # "number"
    THEN "Invalid music entry: baseBeats must be a number"
    ELSE IF music.scores.t # "array" THEN "Invalid music entry: scores must be an array"
    ELSE ""

\* the message of the error validate_music_input throws, "" if it returns
validate_music_input(data) ==
    IF data.t \notin {"object", "array"} THEN "Invalid JSON structure: expected an object"
    ELSE IF data.baseBpm.t # "number" THEN "Invalid JSON structure: baseBpm must be a number"
    ELSE IF data.musics.t # "array" THEN "Invalid JSON structure: musics array is required"
    ELSE LET bad == {k \in 1..Len(data.musics.items) : EntryError(data.musics.items[k]) # ""}
         IN  IF bad = {} THEN ""
             ELSE EntryError(data.musics.items[CHOOSE k \in bad : \A o \in bad : k <= o])

\* tiles per second without the division by baseBeats
calculate_tps_perbeat(music, base_bpm) ==
    LET bpm == IF music.bpm.t # "undefined" THEN music.bpm.num ELSE RatInt(base_bpm)
    IN  RatDiv(bpm, RatInt(60))

calculate_tps(music, base_bpm) ==
    LET bpm == IF music.bpm.t # "undefined" THEN music.bpm.num ELSE RatInt(base_bpm)
    IN  RatDiv(RatDiv(bpm, music.baseBeats.num), RatInt(60))

RECURSIVE InsertById(_, _)
\* insertion after every element that does not compare greater: the stable order
\* of [...data.musics].sort((a, b) => a.id - b.id)
InsertById(sorted, music) ==
    IF sorted = <<>> THEN <<music>>
    ELSE IF RatLe(sorted[Len(sorted)].id.num, music.id.num) THEN Append(sorted, music)
    ELSE Append(InsertById(SubSeq(sorted, 1, Len(sorted) - 1), music), sorted[Len(sorted)])

RECURSIVE SortById(_)
SortById(musics) ==
    IF musics = <<>> THEN <<>>
    ELSE InsertById(SortById(SubSeq(musics, 1, Len(musics) - 1)), musics[Len(musics)])

RECURSIVE RowsLoop_inclusive(_, _, _, _, _, _)
\* mutation of RowsLoop: end_row_index is the index of the section's last row
RowsLoop_inclusive(sorted_musics, base_bpm, k, combined_rows, musics_metadata, parsed) ==
    IF k > Len(sorted_musics)
    THEN [rows |-> combined_rows, musics |-> musics_metadata, parsed |-> parsed]
    ELSE LET music == sorted_musics[k]
             rows == process_music(music.baseBeats.num, music.scores.items)
             start_row_index == Len(combined_rows)
             tps == calculate_tps(music, base_bpm)
         IN  RowsLoop_inclusive(sorted_musics, base_bpm, k + 1, combined_rows \o rows,
                      Append(musics_metadata,
                             [id |-> music.id.num, tps |-> tps,
                              start_row_index |-> start_row_index,
                              end_row_index |-> Len(combined_rows \o rows) - 1,
                              row_count |-> Len(rows)]),
                      parsed + Len(music.scores.items))

RECURSIVE RowsLoop(_, _, _, _, _, _)
\* the loop over sorted_musics (419-437); parsed counts the score strings that
\* process_music has parsed
RowsLoop(sorted_musics, base_bpm, k, combined_rows, musics_metadata, parsed) ==
    IF k > Len(sorted_musics)
    THEN [rows |-> combined_rows, musics |-> musics_metadata, parsed |-> parsed]
    ELSE LET music == sorted_musics[k]
             rows == process_music(music.baseBeats.num, music.scores.items)
             start_row_index == Len(combined_rows)
             tps == calculate_tps(music, base_bpm)
         IN  RowsLoop(sorted_musics, base_bpm, k + 1, combined_rows \o rows,
                      Append(musics_metadata,
                             [id |-> music.id.num, tps |-> tps,
                              start_row_index |-> start_row_index,
                              end_row_index |-> Len(combined_rows \o rows),
                              row_count |-> Len(rows)]),
                      parsed + Len(music.scores.items))

\* a second invocation that goes on with the table the first one filled
NewRowTable_kept == cd_first.rows

\* the working tables an invocation creates (416-417)
NewRowTable == <<>>
NewMetadataTable == <<>>

\* the LevelData returned at 468-473: combined the outcome of the loop over the sorted
\* musics, midi the outcome of the try block (441-466)
LevelDataOf(base_bpm, combined, midi) ==
    [thrown |-> FALSE, err |-> "",
     scores_parsed |-> combined.parsed + midi.parsed,
     rows |-> combined.rows, musics |-> combined.musics, base_bpm |-> base_bpm,
     has_midi |-> ~midi.thrown, midi_json |-> midi.midi_json,
     midi_err |-> midi.err, parts |-> midi.parts]

\* parse_and_combine_musics after validation (410-474)
CombineValidated(data, invalid) ==
    IF invalid # ""
    THEN [thrown |-> TRUE, err |-> invalid, scores_parsed |-> 0,
          rows |-> <<>>, musics |-> <<>>, base_bpm |-> 0,
          has_midi |-> FALSE, midi_json |-> NoMidi, midi_err |-> "", parts |-> <<>>]
    ELSE LevelDataOf(data.baseBpm.num[1],
                     RowsLoop(SortById(data.musics.items), data.baseBpm.num[1], 1,
                              NewRowTable, NewMetadataTable, 0),
                     convert_raw_to_midi_json(data.musics.items, data.baseBpm.num[1]))

\* the outcome of parse_and_combine_musics(JSON.stringify(data)): thrown with err, or
\* the LevelData {rows, musics, base_bpm, midi_json}, midi_json = null being
\* has_midi = FALSE.  scores_parsed counts the score strings handed to parse_score or
\* parse_track before the call ended, midi_err is the error caught at 463, parts what
\* parse_song returned.
parse_and_combine_musics(data) == CombineValidated(data, validate_music_input(data))

\* the score strings of the compiler specification
ScoreC == <<"(", "c", ")", "[", "N", "]">>
ScoreE == <<"(", "e", ")", "[", "M", "]">>
ScoreLead == <<"c", "[", "L", "]", ",", "U", ";", "5", "<", "e", "[", "L", "]", ">">>
ScoreUnder == <<"U", ",", "(", "c", ".", "e", ")", "[", "L", "]">>
ScoreDivided == <<"(", "c", "~", "e", ")", "[", "M", "]", ";", "W">>
ScoreEmpty == <<>>
ScoreUnexpected == <<"(", "c", "[", "N", "]">>
ScoreIncomplete == <<"(", "c", ")", "[", "N">>
ScoreConflict == <<"(", "c", "@", "e", "%", "g", ")", "[", "N", "]">>
ScoreOrnament == <<"(", "c", ".", "e", "^", "g", ")", "[", "N", "]">>
ScoreUnknown == <<"x">>

\* the one-section document {baseBpm: 120, musics: [{id: 0, baseBeats, scores: ["(c)[N]"]}]}
EndToEndInput(baseBeats) ==
    JDocument(JNum(<<120, 1>>),
              JArray(<<JEntry(JNum(<<0, 1>>), JUndef, baseBeats, JArray(<<ScoreC>>))>>))

\* the music entries of the compiler specification: entries that compile, entries whose
\* timeline conversion throws, entries that validation rejects
CoGoodEntries ==
    {JEntry(JNum(<<0, 1>>), JUndef, JNum(<<1, 1>>), JArray(<<ScoreC>>)),
     JEntry(JNum(<<1, 1>>), JNum(<<60, 1>>), JNum(<<15, 1>>), JArray(<<ScoreLead, ScoreUnder>>)),
     JEntry(JNum(<<1, 1>>), JUndef, JNum(<<1, 1>>), JArray(<<ScoreEmpty>>)),
     JEntry(JNum(<<3, 1>>), JUndef, JNum(<<1, 1>>), JArray(<<ScoreC, ScoreE>>)),
     JEntry(JNum(<<2, 1>>), JNum(<<60, 1>>), JNum(<<1, 2>>), JArray(<<ScoreDivided>>))}

CoFailingEntries ==
    {JEntry(JNum(<<2, 1>>), JUndef, JNum(<<1, 2>>), JArray(<<>>)),
     JEntry(JNum(<<0, 1>>), JUndef, JNum(<<2, 1>>), JArray(<<ScoreC>>)),
     JEntry(JNum(<<1, 1>>), JUndef, JNum(<<1, 1>>), JArray(<<ScoreUnexpected>>)),
     JEntry(JNum(<<4, 1>>), JUndef, JNum(<<1, 1>>), JArray(<<ScoreIncomplete>>)),
     JEntry(JNum(<<0, 1>>), JUndef, JNum(<<1, 1>>), JArray(<<ScoreConflict>>)),
     JEntry(JNum(<<2, 1>>), JUndef, JNum(<<1, 1>>), JArray(<<ScoreOrnament>>)),
     JEntry(JNum(<<1, 1>>), JUndef, JNum(<<1, 1>>), JArray(<<ScoreC, ScoreUnknown>>))}

CoInvalidEntries ==
    {JEntry(JStr("0"), JUndef, JNum(<<1, 1>>), JArray(<<ScoreC>>)),
     JEntry(JNum(<<0, 1>>), JUndef, JStr("1"), JArray(<<ScoreC>>)),
     JEntry(JNum(<<0, 1>>), JUndef, JNum(<<1, 1>>), JNotArray("string")),
     JNullEntry}

\* bound of the compiler specification: music entries in a document
MaxMusics == 2

CoInputs ==
    {JOther("null"), JOther("number"), JOther("string"), JOther("array")}
    \cup {JDocument(b, JArray(<<e>>)) :
             b \in {JStr("120"), JUndef}, e \in CoGoodEntries \cup CoInvalidEntries}
    \cup {JDocument(JNum(<<120, 1>>), m) : m \in {JNotArray("undefined"), JNotArray("string")}}
    \cup {JDocument(JNum(<<120, 1>>), JArray(m)) :
             m \in SeqsUpTo(CoGoodEntries \cup CoFailingEntries \cup CoInvalidEntries, MaxMusics)}

CoNoResult ==
    [thrown |-> FALSE, err |-> "", scores_parsed |-> 0, rows |-> <<>>, musics |-> <<>>,
     base_bpm |-> 0, has_midi |-> FALSE, midi_json |-> NoMidi, midi_err |-> "", parts |-> <<>>]

CoIdle ==
    /\ co_input = JOther("null")
    /\ co_result = CoNoResult
    /\ co_pc = "idle"

\* a document has been read and parsed by JSON.parse
CoInit ==
    /\ co_input \in CoInputs
    /\ co_result = CoNoResult
    /\ co_pc = "ready"

\* parse_and_combine_musics runs to its return or its throw
CoCompile ==
    /\ co_pc = "ready"
    /\ co_result' = parse_and_combine_musics(co_input)
    /\ co_pc' = "done"
    /\ UNCHANGED co_input
    /\ UNCHANGED co_frame


(***************************************************************************)
(* GameData and the level load (game_state.ts 36-57, 94-161, 182-260;      *)
(* renderer_main.ts 89-161; level_loader.ts 480-533).  Of a row the model  *)
(* keeps index, type, height multiplier and the two flags; the pixel       *)
(* geometry and the randomly chosen slots of its rectangles are left out.  *)
(***************************************************************************)
DEFAULT_TPS == 3

\* bound of the load specification: config.row_count of the generated level
InitialRowCount == 1

\* bound of the load specification: clicks on the load button
MaxAttempts == 2

StartRow ==
    [row_index |-> 0, row_type |-> "START", height_multiplier |-> <<1, 1>>,
     is_completed |-> FALSE, is_active |-> TRUE]

\* the height multipliers drawn for random_int(1, 8): the two extremes
RowHeights == {1, 8}

\* the rows generate_all_rows(row_count) can return: a start row, then rows of random
\* type and random height multiplier (empty rows are born completed)
generate_all_rows(row_count) ==
    {<<StartRow>> \o [i \in 1..row_count |->
                        [row_index |-> i, row_type |-> picks[i][1],
                         height_multiplier |-> <<picks[i][2], 1>>,
                         is_completed |-> picks[i][1] = "EMPTY", is_active |-> FALSE]] :
        picks \in [1..row_count -> {"SINGLE", "DOUBLE", "EMPTY"} \X RowHeights]}

generate_rows_from_level_data(level_rows) ==
    <<StartRow>> \o [i \in 1..Len(level_rows) |->
                       [row_index |-> i, row_type |-> level_rows[i].type,
                        height_multiplier |-> level_rows[i].height_multiplier,
                        is_completed |-> level_rows[i].type = "EMPTY", is_active |-> FALSE]]

\* create_initial_game_state, rows being what generate_all_rows returned
create_initial_game_state(rows) ==
    [state |-> "PAUSED", rows |-> rows, total_completed_height |-> 0, scroll_offset |-> 0,
     active_row_index |-> 0, completed_rows_count |-> 0,
     current_tps |-> <<DEFAULT_TPS, 1>>, current_music_index |-> 0, musics_metadata |-> <<>>]

\* the GameData that GameStateManager.load_level(level_data) installs
GameStateManager_load_level(level_data) ==
    [state |-> "PAUSED", rows |-> generate_rows_from_level_data(level_data.rows),
     total_completed_height |-> 0, scroll_offset |-> 0,
     active_row_index |-> 0, completed_rows_count |-> 0,
     current_tps |-> IF Len(level_data.musics) > 0 THEN level_data.musics[1].tps
                     ELSE <<DEFAULT_TPS, 1>>,
     current_music_index |-> 0, musics_metadata |-> level_data.musics]

\* GameController.load_level(level_data) hands the level to its GameStateManager
GameController_load_level(level_data) == GameStateManager_load_level(level_data)

\* a pause key that resumes from every state but PLAYING
toggle_pause_resume(data) ==
    IF data.state = "PLAYING" THEN [data EXCEPT !.state = "PAUSED"]
    ELSE [data EXCEPT !.state = "PLAYING"]

\* GameStateManager.toggle_pause with config.is_bot_active = false
toggle_pause(data) ==
    IF data.state = "PLAYING" THEN [data EXCEPT !.state = "PAUSED"]
    ELSE IF data.state = "PAUSED" THEN [data EXCEPT !.state = "PLAYING"]
    ELSE data

\* mutation of LevelHasRows: a level without rows is loaded as well
LevelHasRows_always(level_data) == TRUE

\* the test of the click handler before it loads the level (renderer_main.ts 109)
LevelHasRows(level_data) == Len(level_data.rows) > 0

\* the files the user can choose
LdFiles ==
    {EndToEndInput(JNum(<<1, 1>>)),
     EndToEndInput(JStr("1")),
     JOther("null"),
     JDocument(JNum(<<120, 1>>),
               JArray(<<JEntry(JNum(<<1, 1>>), JNum(<<60, 1>>), JNum(<<15, 1>>),
                               JArray(<<ScoreLead, ScoreUnder>>)),
                        JEntry(JNum(<<0, 1>>), JUndef, JNum(<<1, 1>>), JArray(<<ScoreC>>))>>)),
     JDocument(JNum(<<120, 1>>),
               JArray(<<JEntry(JNum(<<0, 1>>), JUndef, JNum(<<1, 1>>), JArray(<<>>))>>)),
     JDocument(JNum(<<120, 1>>),
               JArray(<<JEntry(JNum(<<0, 1>>), JUndef, JNum(<<1, 1>>), JArray(<<ScoreEmpty>>))>>)),
     JDocument(JNum(<<120, 1>>),
               JArray(<<JEntry(JNum(<<0, 1>>), JUndef, JNum(<<1, 1>>),
                               JArray(<<ScoreUnexpected>>))>>))}

LdIdle ==
    /\ ld_pc = "idle" /\ ld_file = JOther("null") /\ ld_status = "none" /\ ld_last = "none"
    /\ ld_load_calls = 0 /\ ld_attempts = 0
    /\ game_data = create_initial_game_state(<<StartRow>>)

\* the page after main(): a GameStateManager with a generated level, the load button idle
LdInit ==
    /\ ld_pc = "idle" /\ ld_file = JOther("null") /\ ld_status = "none" /\ ld_last = "none"
    /\ ld_load_calls = 0 /\ ld_attempts = 0
    /\ game_data \in {create_initial_game_state(rows) : rows \in generate_all_rows(InitialRowCount)}

\* the click listener up to its await (renderer_main.ts 98-106): the file dialog opens
LdClick ==
    /\ ld_pc = "idle" /\ ld_attempts < MaxAttempts
    /\ ld_pc' = "selecting" /\ ld_status' = "Select a JSON file..."
    /\ ld_attempts' = ld_attempts + 1
    /\ UNCHANGED <<ld_file, ld_last, ld_load_calls, game_data>>
    /\ UNCHANGED ld_frame

\* the promise is rejected and the catch block of the click handler runs
\* (renderer_main.ts 145-158)
LdRejected(pc, how) ==
    /\ ld_pc = pc
    /\ ld_pc' = "idle" /\ ld_status' = "Error" /\ ld_last' = how
    /\ UNCHANGED <<ld_file, ld_load_calls, ld_attempts, game_data>>
    /\ UNCHANGED ld_frame

\* input.oncancel (level_loader.ts 527-529)
LdCancel == LdRejected("selecting", "cancelled")

\* input.onchange without a file (level_loader.ts 512-517)
LdChangeNoFile == LdRejected("selecting", "no file")

\* input.onchange with a file (level_loader.ts 512-524, 480-498): the read starts
LdChange ==
    /\ ld_pc = "selecting"
    /\ \E file \in LdFiles : ld_file' = file
    /\ ld_pc' = "reading"
    /\ UNCHANGED <<ld_status, ld_last, ld_load_calls, ld_attempts, game_data>>
    /\ UNCHANGED ld_frame

\* reader.onerror (level_loader.ts 494-496)
LdReadError == LdRejected("reading", "read error")

\* the click handler after its await, level_data being what the compile produced
\* (renderer_main.ts 107-158)
LdSettle(level_data) ==
    IF level_data.thrown
    THEN /\ ld_status' = "Error" /\ ld_last' = "threw"
         /\ UNCHANGED <<ld_load_calls, game_data>>
    ELSE IF LevelHasRows(level_data)
    THEN /\ game_data' = GameController_load_level(level_data)
         /\ ld_load_calls' = ld_load_calls + 1
         /\ ld_status' = "Level loaded!" /\ ld_last' = "loaded"
    ELSE /\ ld_status' = "No valid level data found in file" /\ ld_last' = "no rows"
         /\ UNCHANGED <<ld_load_calls, game_data>>

\* reader.onload (level_loader.ts 484-492): the file is compiled, the promise settles
\* and the click handler resumes
LdOnLoad ==
    /\ ld_pc = "reading"
    /\ LdSettle(parse_and_combine_musics(ld_file))
    /\ ld_pc' = "idle"
    /\ UNCHANGED <<ld_file, ld_attempts>>
    /\ UNCHANGED ld_frame

\* the pause key (game_state.ts 252-260)
GsTogglePause ==
    /\ game_data.state \in {"PLAYING", "PAUSED"}
    /\ game_data' = toggle_pause(game_data)
    /\ UNCHANGED <<ld_pc, ld_file, ld_status, ld_last, ld_load_calls, ld_attempts>>
    /\ UNCHANGED ld_frame

\* the reset key (game_state.ts 184-188): a freshly generated level
GsReset ==
    /\ \E rows \in generate_all_rows(InitialRowCount) :
          game_data' = create_initial_game_state(rows)
    /\ game_data' # game_data
    /\ UNCHANGED <<ld_pc, ld_file, ld_status, ld_last, ld_load_calls, ld_attempts>>
    /\ UNCHANGED ld_frame

(***************************************************************************)
(* MIDI playback scan of the AudioManager (part_004 175-291).  Times are    *)
(* whole multiples of 0.1 ms: one second is 10000.  A note is [time, midi]; *)
(* the MIDI data is [loaded, tracks] with loaded = FALSE for null.  The     *)
(* manager is initialised (initialize() has returned true).                *)
(***************************************************************************)
NoMidiData == [loaded |-> FALSE, tracks |-> <<>>]

\* Math.round(note.time * 1000): milliseconds, halves rounded up
RoundMillis(time) == (time + 5) \div 10

note_id(note, track_idx) == RoundMillis(note.time) * 1000000 + track_idx * 1000 + note.midi

\* the trigger condition without the consumed-id test
should_trigger_nohas(note, id, current_time, played_notes) ==
    /\ note.time <= current_time
    /\ note.time > current_time - 10000

\* the trigger condition with a note due only after its time has passed
should_trigger_passed(note, id, current_time, played_notes) ==
    /\ note.time < current_time
    /\ note.time > current_time - 10000
    /\ id \notin played_notes

\* at or before the current time, inside the 1 s lookback window, not consumed
should_trigger(note, id, current_time, played_notes) ==
    /\ note.time <= current_time
    /\ note.time > current_time - 10000
    /\ id \notin played_notes

\* one iteration of the inner loop: acc is [played, ids, sounded], where sounded
\* lists the notes handed to play_note_by_midi as <<track_idx, i>>
ScanNote(acc, note, id, ref, current_time) ==
    IF should_trigger(note, id, current_time, acc.played)
    THEN [played  |-> acc.played \cup {id},
          ids     |-> Append(acc.ids, id),
          sounded |-> IF note.midi >= 21 /\ note.midi <= 108
                      THEN Append(acc.sounded, ref) ELSE acc.sounded]
    ELSE acc

RECURSIVE NotesScanLoop(_, _, _, _, _)
NotesScanLoop(acc, notes, i, track_idx, current_time) ==
    IF i > Len(notes) THEN acc
    ELSE NotesScanLoop(ScanNote(acc, notes[i], note_id(notes[i], track_idx),
                                <<track_idx, i - 1>>, current_time),
                       notes, i + 1, track_idx, current_time)

RECURSIVE TracksScanLoop(_, _, _, _)
TracksScanLoop(acc, tracks, t, current_time) ==
    IF t > Len(tracks) THEN acc
    ELSE TracksScanLoop(NotesScanLoop(acc, tracks[t], 1, t - 1, current_time),
                        tracks, t + 1, current_time)

\* note_time = Math.floor(note_id / 1000) / 1000 is read as seconds and compared
\* with max_note_time = current_time - 10
is_stale(id, current_time) == (id \div 1000) * 10 < current_time - 100000

CleanUp(acc, current_time) ==
    [acc EXCEPT !.played = {id \in acc.played : ~is_stale(id, current_time)}]

update_midi_playback(midi_data, played_notes, current_time) ==
    IF ~midi_data.loaded
    THEN [played |-> played_notes, ids |-> <<>>, sounded |-> <<>>]
    ELSE CleanUp(TracksScanLoop([played |-> played_notes, ids |-> <<>>, sounded |-> <<>>],
                                midi_data.tracks, 1, current_time),
                 current_time)

\* calls of update_midi_playback between two resets
MaxScans == 4

\* stopwatch times: 0 s, 5 ms, 1 s, 1.004 s, 15.1 s
PbTimes == {0, 50, 10000, 10040, 151000}

\* first tracks: notes at 0 s, 0.4 ms (the same millisecond and pitch as the
\* first), 5 ms, 0.9996 s and 1 s (both 1000 ms); pitch 0 is what an unknown note
\* name compiles to
PbFirstTracks ==
    { <<[time |-> 0, midi |-> 48]>>,
      <<[time |-> 0, midi |-> 48], [time |-> 4, midi |-> 48]>>,
      <<[time |-> 4, midi |-> 48], [time |-> 0, midi |-> 48]>>,
      <<[time |-> 0, midi |-> 48], [time |-> 50, midi |-> 52]>>,
      <<[time |-> 50, midi |-> 52], [time |-> 10000, midi |-> 0]>>,
      <<[time |-> 9996, midi |-> 48], [time |-> 10000, midi |-> 48]>>,
      <<[time |-> 0, midi |-> 0], [time |-> 50, midi |-> 52], [time |-> 9996, midi |-> 48]>> }

PbSecondTracks ==
    { <<>>, <<[time |-> 0, midi |-> 48]>>, <<[time |-> 50, midi |-> 52]>> }

PbMidiPool ==
    {[loaded |-> TRUE, tracks |-> <<f, s>>] : f \in PbFirstTracks, s \in PbSecondTracks}

PbIdle ==
    /\ pb_midi_data = NoMidiData
    /\ pb_played_notes = {}
    /\ pb_scans = <<>>

\* a constructed and initialised AudioManager: no MIDI data, nothing consumed
PbInit ==
    /\ pb_midi_data = NoMidiData
    /\ pb_played_notes = {}
    /\ pb_scans = <<>>

\* reset_playback (210-218)
PbResetPlayback ==
    /\ pb_played_notes' = {}
    /\ pb_scans' = <<>>
    /\ UNCHANGED pb_midi_data
    /\ UNCHANGED pb_frame

\* load_midi_data (175-196): stores the data and resets the playback
PbLoadMidiData ==
    /\ \E d \in PbMidiPool : pb_midi_data' = d
    /\ pb_played_notes' = {}
    /\ pb_scans' = <<>>
    /\ UNCHANGED pb_frame

\* clear_midi_data (201-205)
PbClearMidiData ==
    /\ pb_midi_data' = NoMidiData
    /\ pb_played_notes' = {}
    /\ pb_scans' = <<>>
    /\ UNCHANGED pb_frame

PbScanned(r, current_time) ==
    /\ pb_played_notes' = r.played
    /\ pb_scans' = Append(pb_scans, [time |-> current_time, ids |-> r.ids,
                                     sounded |-> r.sounded])

\* one frame: update_midi_playback(current_time)
PbUpdate ==
    /\ Len(pb_scans) < MaxScans
    /\ \E current_time \in PbTimes :
          PbScanned(update_midi_playback(pb_midi_data, pb_played_notes, current_time),
                    current_time)
    /\ UNCHANGED pb_midi_data
    /\ UNCHANGED pb_frame

(***************************************************************************)
(* Note indicators (note_indicator.ts 142-161).  Of an indicator the model  *)
(* keeps note_id and is_consumed; position, size and time are never read by *)
(* the two functions.                                                       *)
(***************************************************************************)
\* marks every unconsumed indicator that carries the id
ConsumeLoop_all(indicators, i, id) ==
    [indicators |-> [k \in 1..Len(indicators) |->
                        IF indicators[k].note_id = id
                        THEN [indicators[k] EXCEPT !.is_consumed = TRUE]
                        ELSE indicators[k]],
     ret |-> \E k \in 1..Len(indicators) :
                indicators[k].note_id = id /\ ~indicators[k].is_consumed]

\* the for loop of consume_indicator_by_note_id from position i on
RECURSIVE ConsumeLoop(_, _, _)
ConsumeLoop(indicators, i, id) ==
    IF i > Len(indicators) THEN [indicators |-> indicators, ret |-> FALSE]
    ELSE IF indicators[i].note_id = id /\ ~indicators[i].is_consumed
         THEN [indicators |-> [indicators EXCEPT ![i].is_consumed = TRUE], ret |-> TRUE]
         ELSE ConsumeLoop(indicators, i + 1, id)

consume_indicator_by_note_id(indicators, id) == ConsumeLoop(indicators, 1, id)

Unconsumed(ind) == ~ind.is_consumed

get_active_indicators(indicators) == SelectSeq(indicators, Unconsumed)

MaxIndicators == 3
MaxIndicatorCalls == 3

\* ids of a note at time 0 with pitch 48 in track 0 and in track 1; 52 is the id
\* of a note that has no indicator
NiBuiltIds == {48, 1048}
NiAskedIds == {48, 1048, 52}

\* indicator arrays as build_note_indicators returns them: nothing consumed; two
\* notes of one millisecond, track and pitch give two indicators with one id
NiBuilt ==
    {[k \in 1..Len(ids) |-> [note_id |-> ids[k], is_consumed |-> FALSE]] :
        ids \in SeqsUpTo(NiBuiltIds, MaxIndicators)}

NiIdle ==
    /\ ni_indicators = <<>>
    /\ ni_log = <<>>

NiInit ==
    /\ ni_indicators \in NiBuilt
    /\ ni_log = <<>>

NiConsumed(r, id) ==
    /\ ni_indicators' = r.indicators
    /\ ni_log' = Append(ni_log, [op |-> "consume", id |-> id, ret |-> r.ret,
                                 before |-> ni_indicators, after |-> r.indicators,
                                 active |-> <<>>])

NiConsume ==
    /\ Len(ni_log) < MaxIndicatorCalls
    /\ \E id \in NiAskedIds :
          NiConsumed(consume_indicator_by_note_id(ni_indicators, id), id)
    /\ UNCHANGED ni_frame

NiGetActive ==
    /\ Len(ni_log) < MaxIndicatorCalls
    /\ ni_log' = Append(ni_log, [op |-> "active", id |-> 0, ret |-> FALSE,
                                 before |-> ni_indicators, after |-> ni_indicators,
                                 active |-> get_active_indicators(ni_indicators)])
    /\ UNCHANGED ni_indicators
    /\ UNCHANGED ni_frame

(***************************************************************************)
(* Two invocations of parse_and_combine_musics on one input string          *)
(* (level_loader.ts 406-474).  The module keeps no state between calls: its *)
(* only module-level bindings are the constant tables, and every working    *)
(* table and the SafeDivider are created inside the call.                   *)
(***************************************************************************)
CdIdle ==
    /\ cd_input = JOther("null")
    /\ cd_first = CoNoResult
    /\ cd_second = CoNoResult
    /\ cd_pc = "idle"

CdInit ==
    /\ cd_input \in CoInputs
    /\ cd_first = CoNoResult
    /\ cd_second = CoNoResult
    /\ cd_pc = "ready"

CdFirst ==
    /\ cd_pc = "ready"
    /\ cd_first' = parse_and_combine_musics(cd_input)
    /\ cd_pc' = "once"
    /\ UNCHANGED <<cd_input, cd_second>>
    /\ UNCHANGED cd_frame

CdSecond ==
    /\ cd_pc = "once"
    /\ cd_second' = parse_and_combine_musics(cd_input)
    /\ cd_pc' = "twice"
    /\ UNCHANGED <<cd_input, cd_first>>
    /\ UNCHANGED cd_frame

(***************************************************************************)
(* One component handed to parse_component and is_only_rest_letters         *)
(* (level_loader.ts 80-109)                                                 *)
(***************************************************************************)
MaxComponentLen == 4

LyAlphabet == {"5", "3", "<", ">", "N", "P", "Q", "Y", "c", " ", "\n"}

\* every short string over the alphabet, and the group of the documentation
LyComponents ==
    SeqsUpTo(LyAlphabet, MaxComponentLen) \cup {<<"5", "<", "c", ".", "N", ">">>}

LyNoResult == [duration |-> 0, original_type |-> "NONE"]

LyIdle ==
    /\ ly_component = <<>>
    /\ ly_parsed = LyNoResult
    /\ ly_only_rest = FALSE
    /\ ly_pc = "idle"

LyInit ==
    /\ ly_component \in LyComponents
    /\ ly_parsed = LyNoResult
    /\ ly_only_rest = FALSE
    /\ ly_pc = "ready"

\* parse_component(component) and is_only_rest_letters(component)
LyClassify ==
    /\ ly_pc = "ready"
    /\ ly_parsed' = parse_component(ly_component)
    /\ ly_only_rest' = is_only_rest_letters(ly_component)
    /\ ly_pc' = "done"
    /\ UNCHANGED ly_component
    /\ UNCHANGED ly_frame

(***************************************************************************)
(* Calls of ticks_to_seconds on one tempo map (level_loader.ts 1399-1421).  *)
(* The map is one convert_to_midi_json builds: ppq 960, the first           *)
(* breakpoint at tick 0, ticks non-decreasing.                              *)
(***************************************************************************)
MaxTempos == 3

TtBreakTicks == {0, 480, 960}
TtBpms == {<<60, 1>>, <<90, 1>>, <<120, 1>>}
TtTicks == {0, 1, 479, 480, 481, 960, 961, 1440, 1920}

TtTempoMaps ==
    {m \in SeqsUpTo([ticks : TtBreakTicks, bpm : TtBpms, time : {<<0, 1>>}], MaxTempos) :
        /\ m # <<>> /\ m[1].ticks = 0
        /\ \A k \in 1..(Len(m) - 1) : m[k].ticks <= m[k + 1].ticks}

TtNoCall == [called |-> FALSE, ticks |-> 0, seconds |-> <<0, 1>>]

TtIdle ==
    /\ tt_tempos = <<>>
    /\ tt_last = TtNoCall
    /\ tt_prev = TtNoCall

TtInit ==
    /\ tt_tempos \in TtTempoMaps
    /\ tt_last = TtNoCall
    /\ tt_prev = TtNoCall

\* ticks_to_seconds(ticks, tempos, 960); the call before it is kept
TtConvert ==
    /\ ~tt_prev.called
    /\ \E ticks \in TtTicks :
          tt_last' = [called |-> TRUE, ticks |-> ticks,
                      seconds |-> ticks_to_seconds(ticks, tt_tempos, 960)]
    /\ tt_prev' = tt_last
    /\ UNCHANGED tt_tempos
    /\ UNCHANGED tt_frame

(***************************************************************************)
(* parse_track one iteration at a time (level_loader.ts 695-869): the       *)
(* position in the score, the parser mode, the pending notes and the        *)
(* messages pushed so far.                                                  *)
(***************************************************************************)
\* every listed character is skipped in both idle modes
IgnoredOutsideUnit_any(char, mode) ==
    (char \in {"<", ">", "{", "}"} \/ char \in Digits) /\ mode \in {0, 5}

\* the two tests at 781-786
IgnoredOutsideUnit(char, mode) ==
    \/ (char = "<" \/ char \in Digits) /\ mode = 0
    \/ (char \in {">", "{", "}"} \/ char \in Digits) /\ mode = 5

PtNext(i, mode, notes, messages) ==
    [i |-> i, mode |-> mode, notes |-> notes, messages |-> messages,
     thrown |-> FALSE, err |-> ""]

PtFail(e, i, mode, notes, messages) ==
    [i |-> i, mode |-> mode, notes |-> notes, messages |-> messages,
     thrown |-> TRUE, err |-> e]

\* a token branch that takes a length code in whatever mode it is met
TokenStep_anymode(temp, last, note, length, rest, bpm, mode, notes, messages) ==
    IF length.thrown \/ rest.thrown
    THEN PtFail("Length overflow", last, mode, notes, messages)
    ELSE IF note # 0
    THEN IF mode = 0
         THEN PtNext(last + 1, 3, IF note # 1 THEN Append(notes, note) ELSE notes, messages)
         ELSE IF mode = 1
         THEN PtNext(last + 1, 2, IF note # 1 THEN Append(notes, note) ELSE notes, messages)
         ELSE PtFail("Unexpected token", last, mode, notes, messages)
    ELSE IF length.value # 0
    THEN IF process_notes(notes, length.value, bpm).thrown
         THEN PtFail(process_notes(notes, length.value, bpm).err, last, mode, notes, messages)
         ELSE PtNext(last + 1, 6, <<>>,
                     messages \o process_notes(notes, length.value, bpm).msgs)
    ELSE IF rest.value # 0
    THEN IF mode = 0 THEN PtNext(last + 1, 5, notes, Append(messages, Delay(rest.value)))
         ELSE IF mode = 1 THEN PtNext(last + 1, 2, notes, messages)
         ELSE PtFail("Unexpected token", last, mode, notes, messages)
    ELSE PtFail("Couldn't parse", last, mode, notes, messages)

\* the token branch (788-857): temp is the token, last the index of its last character
TokenStep(temp, last, note, length, rest, bpm, mode, notes, messages) ==
    IF length.thrown \/ rest.thrown
    THEN PtFail("Length overflow", last, mode, notes, messages)
    ELSE IF note # 0
    THEN IF mode = 0
         THEN PtNext(last + 1, 3, IF note # 1 THEN Append(notes, note) ELSE notes, messages)
         ELSE IF mode = 1
         THEN PtNext(last + 1, 2, IF note # 1 THEN Append(notes, note) ELSE notes, messages)
         ELSE PtFail("Unexpected token", last, mode, notes, messages)
    ELSE IF length.value # 0
    THEN IF mode # 4 THEN PtFail("Unexpected token", last, mode, notes, messages)
         ELSE IF process_notes(notes, length.value, bpm).thrown
         THEN PtFail(process_notes(notes, length.value, bpm).err, last, mode, notes, messages)
         ELSE PtNext(last + 1, 6, <<>>,
                     messages \o process_notes(notes, length.value, bpm).msgs)
    ELSE IF rest.value # 0
    THEN IF mode = 0 THEN PtNext(last + 1, 5, notes, Append(messages, Delay(rest.value)))
         ELSE IF mode = 1 THEN PtNext(last + 1, 2, notes, messages)
         ELSE PtFail("Unexpected token", last, mode, notes, messages)
    ELSE PtFail("Couldn't parse", last, mode, notes, messages)

TokenAt(score, i, last, bpm, base_beats, mode, notes, messages) ==
    TokenStep(SubSeq(score, i, last), last,
              get_note_number(Join(SubSeq(score, i, last))),
              get_length(SubSeq(score, i, last), base_beats),
              get_rest(SubSeq(score, i, last), base_beats),
              bpm, mode, notes, messages)

\* one iteration of the for loop (700-859) at index i
ParseTrackStep(score, bpm, base_beats, i, mode, notes, messages) ==
    IF score[i] \in OperatorChars
    THEN IF mode = 2
         THEN PtNext(i + 1, 1,
                     IF score[i] = "." THEN notes ELSE Append(notes, OperatorCode(score[i])),
                     messages)
         ELSE PtFail("Unexpected", i, mode, notes, messages)
    ELSE IF score[i] = "("
    THEN (IF mode = 0 THEN PtNext(i + 1, 1, notes, messages)
          ELSE PtFail("Unexpected", i, mode, notes, messages))
    ELSE IF score[i] = ")"
    THEN (IF mode = 2 THEN PtNext(i + 1, 3, notes, messages)
          ELSE PtFail("Unexpected", i, mode, notes, messages))
    ELSE IF score[i] = "["
    THEN (IF mode = 3 THEN PtNext(i + 1, 4, notes, messages)
          ELSE PtFail("Unexpected", i, mode, notes, messages))
    ELSE IF score[i] = "]"
    THEN (IF mode = 6 THEN PtNext(i + 1, 5, notes, messages)
          ELSE PtFail("Unexpected", i, mode, notes, messages))
    ELSE IF score[i] = "," \/ score[i] = ";"
    THEN (IF mode = 5 \/ mode = 0 THEN PtNext(i + 1, 0, notes, messages)
          ELSE PtFail("Unexpected", i, mode, notes, messages))
    ELSE IF score[i] = " " THEN PtNext(i + 1, mode, notes, messages)
    ELSE IF IgnoredOutsideUnit(score[i], mode) THEN PtNext(i + 1, mode, notes, messages)
    ELSE TokenAt(score, i, TokenEnd(score, i), bpm, base_beats, mode, notes, messages)

\* a score may also end right after its length code
IncompleteAtEnd_lenient(mode) == mode # 0 /\ mode # 5 /\ mode # 6

\* the test at 861
IncompleteAtEnd(mode) == mode # 0 /\ mode # 5

InsertAt(s, k, c) == SubSeq(s, 1, k) \o <<c>> \o SubSeq(s, k + 1, Len(s))

ScoreMute == <<"(", "m", "u", "t", "e", ")", "[", "P", "]">>

\* a unit whose token is a member every object inherits
ScoreInherited == <<"(", "v", "a", "l", "u", "e", "O", "f", ")", "[", "N", "]">>

PtBaseScores == {ScoreC, ScoreDivided, ScoreLead, ScoreUnder, ScoreMute, ScoreInherited}

PtInserted ==
    {" ", "\n", "5", "<", ">", "{", "}", "(", ")", "[", "]", ".", ",", ";", "~", "$", "@", "%",
     "!", "^", "&", "x", "N", "Q"}

\* the base scores, each of their prefixes, and each of them with one more
\* character at any place
PtScores ==
    PtBaseScores
    \cup UNION {{SubSeq(s, 1, k) : k \in 0..Len(s)} : s \in PtBaseScores}
    \cup UNION {{InsertAt(s, k, c) : k \in 0..Len(s), c \in PtInserted} : s \in PtBaseScores}

PtNoStep ==
    [stepped |-> FALSE, i |-> 0, char |-> "", mode |-> 0, notes |-> <<>>, messages |-> <<>>]

PtIdle ==
    /\ pt_score = <<>>
    /\ pt_i = 0
    /\ pt_mode = 0
    /\ pt_notes = <<>>
    /\ pt_messages = <<>>
    /\ pt_status = "idle"
    /\ pt_err = ""
    /\ pt_prev = PtNoStep

\* parse_track(score, 120, 15) at its first iteration (696-700)
PtInit ==
    /\ pt_score \in PtScores
    /\ pt_i = 1
    /\ pt_mode = 0
    /\ pt_notes = <<>>
    /\ pt_messages = <<>>
    /\ pt_status = "scanning"
    /\ pt_err = ""
    /\ pt_prev = PtNoStep

PtStepped(r) ==
    /\ pt_i' = r.i
    /\ pt_mode' = r.mode
    /\ pt_notes' = r.notes
    /\ pt_messages' = r.messages
    /\ pt_status' = IF r.thrown THEN "thrown" ELSE "scanning"
    /\ pt_err' = r.err

\* one iteration of the loop; pt_prev keeps the index and the character it started
\* on and the parser state before it
PtStep ==
    /\ pt_status = "scanning"
    /\ pt_i <= Len(pt_score)
    /\ PtStepped(ParseTrackStep(pt_score, 120, 15, pt_i, pt_mode, pt_notes, pt_messages))
    /\ pt_prev' = [stepped |-> TRUE, i |-> pt_i, char |-> pt_score[pt_i], mode |-> pt_mode,
                   notes |-> pt_notes, messages |-> pt_messages]
    /\ UNCHANGED pt_score
    /\ UNCHANGED pt_frame

\* the check after the last character (861-868); no iteration is under way
PtFinish ==
    /\ pt_status = "scanning"
    /\ pt_i > Len(pt_score)
    /\ pt_status' = IF IncompleteAtEnd(pt_mode) THEN "thrown" ELSE "returned"
    /\ pt_err' = IF IncompleteAtEnd(pt_mode) THEN "Incomplete score string" ELSE ""
    /\ pt_prev' = PtNoStep
    /\ UNCHANGED <<pt_score, pt_i, pt_mode, pt_notes, pt_messages>>
    /\ UNCHANGED pt_frame

(***************************************************************************)
(* One token handed to get_length and get_rest (level_loader.ts 582-666)    *)
(* with a multiplier of BASEBEATS_MAP.                                      *)
(***************************************************************************)
\* the longest run of one letter, and the longest tail after it
MaxRun == 70
MaxTail == 2

GlTailAlphabet == {"H", "P", "Q", "Y", "c"}
GlMultipliers == {1, 15, 960}

\* a run of H or of Q followed by a short tail: 69 H at multiplier 960 are the
\* first run above 0xffffff
GlTokens ==
    {[k \in 1..n |-> c] \o tail :
        n \in 0..MaxRun, c \in {"H", "Q"}, tail \in SeqsUpTo(GlTailAlphabet, MaxTail)}

GlNoResult == [thrown |-> FALSE, value |-> 0]

GlIdle ==
    /\ gl_token = <<>>
    /\ gl_base_beats = 0
    /\ gl_length = GlNoResult
    /\ gl_rest = GlNoResult
    /\ gl_pc = "idle"

GlInit ==
    /\ gl_token \in GlTokens
    /\ gl_base_beats \in GlMultipliers
    /\ gl_length = GlNoResult
    /\ gl_rest = GlNoResult
    /\ gl_pc = "ready"

\* get_length(token, base_beats) and get_rest(token, base_beats), as parse_track
\* calls them at 819-820
GlMeasure ==
    /\ gl_pc = "ready"
    /\ gl_length' = get_length(gl_token, gl_base_beats)
    /\ gl_rest' = get_rest(gl_token, gl_base_beats)
    /\ gl_pc' = "done"
    /\ UNCHANGED <<gl_token, gl_base_beats>>
    /\ UNCHANGED gl_frame

(***************************************************************************)
(* Calls of process_music on one music section (level_loader.ts 252-265):   *)
(* a primary score, zero or more secondary scores and a positive base_beats *)
(***************************************************************************)
MaxPieces == 2
MaxSecondary == 2

\* components of a primary score: notes of 1, 32, 48 and 64 ticks, a note
\* without a duration letter, rests of 1, 32 and 48 ticks, a double group
PmPieces ==
    {<<"P">>, <<"K", "L">>, <<"J">>, <<"c">>, <<"Y">>, <<"T">>, <<"T", "U">>,
     <<"5", "<", "K", ">">>}

RECURSIVE PmScoreOf(_)
\* the components written one after the other, separated by commas
PmScoreOf(pieces) ==
    IF pieces = <<>> THEN <<>>
    ELSE IF Len(pieces) = 1 THEN pieces[1]
    ELSE pieces[1] \o <<",">> \o PmScoreOf(Tail(pieces))

PmPrimaryScores == {PmScoreOf(p) : p \in SeqsUpTo(PmPieces, MaxPieces)}

\* secondary scores: rests only, a note at once, a note after a rest of 32
\* ticks, a note of no length after 48 ticks, a note after 32 ticks of notes
PmSecondaryScores ==
    {<<"Q">>, <<"K">>, <<"T", ",", "K">>, <<"T", "U", ",", "c">>,
     <<"3", "<", "K", ">", ";", "P">>}

PmBaseBeats == {<<1, 2>>, <<1, 1>>}

PmIdle ==
    /\ pm_base_beats = <<1, 1>>
    /\ pm_scores = <<>>
    /\ pm_rows = <<>>
    /\ pm_pc = "idle"

PmInit ==
    /\ pm_base_beats \in PmBaseBeats
    /\ \E primary \in PmPrimaryScores :
       \E secondary \in SeqsUpTo(PmSecondaryScores, MaxSecondary) :
          pm_scores = <<primary>> \o secondary
    /\ pm_rows = <<>>
    /\ pm_pc = "ready"

\* process_music({base_beats, scores})
PmProcess ==
    /\ pm_pc = "ready"
    /\ pm_rows' = process_music(pm_base_beats, pm_scores)
    /\ pm_pc' = "done"
    /\ UNCHANGED <<pm_base_beats, pm_scores>>
    /\ UNCHANGED pm_frame

(***************************************************************************)
(* The conversion of a song, one message at a time: parse_song (1119-1178), *)
(* align_tracks_across_parts (1183-1211) and, for every part and track in   *)
(* the order of convert_to_midi_json (1255-1298), the loop of               *)
(* process_track_messages (1340-1369)                                       *)
(***************************************************************************)
MaxTracks == 2

ScoreArpeggio == <<"(", "c", "@", "e", ")", "[", "L", "]">>
ScoreTrill == <<"(", "c", "^", "e", ")", "[", "L", "]">>
ScoreTwice == <<"(", "c", "@", "c", ")", "[", "M", "]">>

\* scores parse_track accepts: 60, 720, 480, 180, 240, 240, 120 and 15 ticks
SgScores ==
    {ScoreC, ScoreLead, ScoreUnder, ScoreDivided, ScoreArpeggio, ScoreTrill, ScoreTwice,
     ScoreMute}

SgEntry(scores) == JEntry(JNum(<<0, 1>>), JUndef, JNum(<<1, 1>>), JArray(scores))

\* a part of one track and a part of three tracks
SgNarrow == SgEntry(<<ScoreE>>)
SgWide == SgEntry(<<ScoreC, ScoreE, ScoreUnder>>)

\* one part alone, before a part of one track, after a part of three tracks
SgSongs ==
    UNION {{<<SgEntry(s)>>, <<SgEntry(s), SgNarrow>>, <<SgWide, SgEntry(s)>>} :
              s \in SeqsUpTo(SgScores, MaxTracks) \ {<<>>}}

SgNoWalk == [part |-> 0, track |-> 0, k |-> 0, current_ticks |-> 0]
SgNoNotes == [n \in {} |-> 0]

SgIdle ==
    /\ sg_musics = <<>>
    /\ sg_parsed = <<>>
    /\ sg_parts = <<>>
    /\ sg_walk = SgNoWalk
    /\ sg_active_notes = SgNoNotes
    /\ sg_tracks = <<>>
    /\ sg_pc = "idle"

SgInit ==
    /\ sg_musics \in SgSongs
    /\ sg_parsed = <<>>
    /\ sg_parts = <<>>
    /\ sg_walk = SgNoWalk
    /\ sg_active_notes = SgNoNotes
    /\ sg_tracks = <<>>
    /\ sg_pc = "ready"

\* convert_raw_to_midi_json calls parse_song (1433-1436)
SgParse ==
    /\ sg_pc = "ready"
    /\ LET song == parse_song(sg_musics, 120)
       IN  /\ sg_parsed' = song.parts
           /\ sg_pc' = IF song.thrown THEN "done" ELSE "parsed"
    /\ UNCHANGED <<sg_musics, sg_parts, sg_walk, sg_active_notes, sg_tracks>>
    /\ UNCHANGED sg_frame

\* convert_to_midi_json aligns the parts (1241) and enters the loops at the first
\* track of the first part (1255-1281)
SgAlign ==
    /\ sg_pc = "parsed"
    /\ sg_parts' = align_tracks_across_parts(sg_parsed)
    /\ sg_walk' = [part |-> 1, track |-> 1, k |-> 1, current_ticks |-> 0]
    /\ sg_active_notes' = SgNoNotes
    /\ sg_tracks' = [t \in 1..Len(sg_parts'[1].tracks) |-> <<>>]
    /\ sg_pc' = "walking"
    /\ UNCHANGED <<sg_musics, sg_parsed>>
    /\ UNCHANGED sg_frame

SgMessages == sg_parts[sg_walk.part].tracks[sg_walk.track]

\* one pass of the loop of process_track_messages (1340-1369)
SgMessage ==
    /\ sg_pc = "walking"
    /\ sg_walk.k <= Len(SgMessages)
    /\ LET msg == SgMessages[sg_walk.k]
           current_ticks == sg_walk.current_ticks
       IN  /\ sg_walk' = [sg_walk EXCEPT !.k = @ + 1,
                                         !.current_ticks = IF msg.type = 2 THEN @ + msg.value ELSE @]
           /\ sg_active_notes' =
                 IF msg.type = 0
                 THEN [n \in DOMAIN sg_active_notes \cup {msg.value} |->
                          IF n = msg.value THEN current_ticks ELSE sg_active_notes[n]]
                 ELSE IF msg.type = 1
                 THEN [n \in DOMAIN sg_active_notes \ {msg.value} |-> sg_active_notes[n]]
                 ELSE sg_active_notes
           /\ sg_tracks' =
                 IF msg.type = 1 /\ msg.value \in DOMAIN sg_active_notes
                 THEN [sg_tracks EXCEPT ![sg_walk.track] =
                          Append(@, [midi |-> msg.value,
                                     ticks |-> sg_active_notes[msg.value],
                                     duration_ticks |-> current_ticks - sg_active_notes[msg.value]])]
                 ELSE sg_tracks
    /\ UNCHANGED <<sg_musics, sg_parsed, sg_parts, sg_pc>>
    /\ UNCHANGED sg_frame

\* process_track_messages returns: the next track of the part (1275), else the
\* first track of the next part with the cursor advanced (1295-1297), else the end
SgReturn ==
    /\ sg_pc = "walking"
    /\ sg_walk.k > Len(SgMessages)
    /\ sg_active_notes' = SgNoNotes
    /\ IF sg_walk.track < Len(sg_parts[sg_walk.part].tracks)
       THEN /\ sg_walk' = [part |-> sg_walk.part, track |-> sg_walk.track + 1, k |-> 1,
                           current_ticks |-> PartStartTicks(sg_parts, sg_walk.part)]
            /\ sg_pc' = "walking"
       ELSE IF sg_walk.part < Len(sg_parts)
       THEN /\ sg_walk' = [part |-> sg_walk.part + 1, track |-> 1, k |-> 1,
                           current_ticks |-> PartStartTicks(sg_parts, sg_walk.part + 1)]
            /\ sg_pc' = "walking"
       ELSE /\ sg_walk' = SgNoWalk
            /\ sg_pc' = "done"
    /\ UNCHANGED <<sg_musics, sg_parsed, sg_parts, sg_tracks>>
    /\ UNCHANGED sg_frame

(***************************************************************************)
(* Calls of split_score on one score of the row-layout notation             *)
(* (level_loader.ts 111-161)                                                *)
(***************************************************************************)
MaxScoreLen == 5

SpAlphabet == {"5", "<", ">", ",", ";", "N", " "}

\* every short score over the alphabet; a group that holds separators and a
\* nested pair; text, a group and text; a group that is never closed
SpScores ==
    SeqsUpTo(SpAlphabet, MaxScoreLen)
    \cup {<<"5", "<", "N", ",", "<", "N", ";", ">", "N", ">", ",", "N">>,
          <<"N", " ", "5", "<", "N", ">", "N", ";", "N">>,
          <<"N", ",", "5", "<", "N", ",", "N", ";", "N">>}

SpIdle ==
    /\ sp_score = <<>>
    /\ sp_components = <<>>
    /\ sp_pc = "idle"

SpInit ==
    /\ sp_score \in SpScores
    /\ sp_components = <<>>
    /\ sp_pc = "ready"

\* split_score(score)
SpSplit ==
    /\ sp_pc = "ready"
    /\ sp_components' = split_score(sp_score)
    /\ sp_pc' = "done"
    /\ UNCHANGED sp_score
    /\ UNCHANGED sp_frame

(***************************************************************************)
(* Calls of shrink_track on one track (level_loader.ts 1055-1093)           *)
(***************************************************************************)
MaxShrinkMsgs == 4
MaxAmount == 5

ShAlphabet == {NoteOn(48), NoteOff(48), NoteOn(52), NoteOff(52), Delay(0), Delay(1), Delay(2)}

\* every short track over the alphabet, and the 100-tick track of the worked example
ShTracks == SeqsUpTo(ShAlphabet, MaxShrinkMsgs) \cup {AlExample[2]}

\* amounts from nothing to more than a short track holds, and amounts that end
\* inside the first, at the start of the second and beyond the example track
ShAmounts == 0..MaxAmount \cup {20, 40, 70, 101}

ShNoResult == [thrown |-> FALSE, msgs |-> <<>>]

ShIdle ==
    /\ sh_messages = <<>>
    /\ sh_amount = 0
    /\ sh_result = ShNoResult
    /\ sh_pc = "idle"

ShInit ==
    /\ sh_messages \in ShTracks
    /\ sh_amount \in ShAmounts
    /\ sh_result = ShNoResult
    /\ sh_pc = "call"

\* shrink_track(messages, amount): the array as the call leaves it, and whether
\* it threw
ShShrink ==
    /\ sh_pc = "call"
    /\ sh_result' = shrink_track(sh_messages, sh_amount)
    /\ sh_pc' = "done"
    /\ UNCHANGED <<sh_messages, sh_amount>>
    /\ UNCHANGED sh_frame

(***************************************************************************)
(* build_note_indicators (note_indicator.ts 18-140) on a timeline, a row    *)
(* array and the sections' metadata, followed by playback scans of the same *)
(* timeline (part_004 225-291).  Times are multiples of 0.1 ms as in the    *)
(* playback scan, window edges are exact rationals in that unit.  A row is  *)
(* [row_index, row_type, height_multiplier, rectangles] with rectangles the *)
(* number of tiles.  Of an indicator the model keeps note_id, row_index,    *)
(* time and is_consumed, and ref, the <<track_idx, i>> of the MidiNote      *)
(* object it was built from; x, y, width and height are not read by any     *)
(* function of the module.                                                  *)
(***************************************************************************)
MaxLevelRows == 2
MaxPlaybackCalls == 2

\* ids that number the tracks from 1
NotesWithIds_fromone(midi_json, track_idx) ==
    [i \in 1..Len(midi_json.tracks[track_idx + 1]) |->
        LET note == midi_json.tracks[track_idx + 1][i]
        IN  [note |-> note,
             note_id |-> RoundMillis(note.time) * 1000000 + (track_idx + 1) * 1000 + note.midi,
             ref |-> <<track_idx, i - 1>>]]

\* notes of track track_idx with their ids (29-38), in track order
NotesWithIds(midi_json, track_idx) ==
    [i \in 1..Len(midi_json.tracks[track_idx + 1]) |->
        LET note == midi_json.tracks[track_idx + 1][i]
        IN  [note |-> note,
             note_id |-> RoundMillis(note.time) * 1000000 + track_idx * 1000 + note.midi,
             ref |-> <<track_idx, i - 1>>]]

RECURSIVE CollectNotes(_, _)
CollectNotes(midi_json, n) ==
    IF n = 0 THEN <<>>
    ELSE CollectNotes(midi_json, n - 1) \o NotesWithIds(midi_json, n - 1)

RECURSIVE InsertByTime(_, _)
\* the stable order of all_notes.sort((a, b) => a.note.time - b.note.time) (41)
InsertByTime(sorted, entry) ==
    IF sorted = <<>> THEN <<entry>>
    ELSE IF sorted[Len(sorted)].note.time <= entry.note.time THEN Append(sorted, entry)
    ELSE Append(InsertByTime(SubSeq(sorted, 1, Len(sorted) - 1), entry), sorted[Len(sorted)])

RECURSIVE SortByTime(_)
SortByTime(all_notes) ==
    IF all_notes = <<>> THEN <<>>
    ELSE InsertByTime(SortByTime(SubSeq(all_notes, 1, Len(all_notes) - 1)),
                      all_notes[Len(all_notes)])

RECURSIVE FindTps(_, _, _)
\* the tps of the first section that holds the level row, else the default (58-64)
FindTps(musics_metadata, k, level_row_index) ==
    IF k > Len(musics_metadata) THEN RatInt(DEFAULT_TPS)
    ELSE IF /\ level_row_index >= musics_metadata[k].start_row_index
            /\ level_row_index < musics_metadata[k].end_row_index
         THEN musics_metadata[k].tps
         ELSE FindTps(musics_metadata, k + 1, level_row_index)

\* a row window that lasts tps / height_multiplier
RowDuration_inverse(row, musics_metadata) ==
    RatMul(RatInt(10000),
           RatDiv(FindTps(musics_metadata, 1, row.row_index - 1), row.height_multiplier))

\* row_duration = height_multiplier * (1 / tps) seconds (66-69)
RowDuration(row, musics_metadata) ==
    RatMul(row.height_multiplier,
           RatDiv(RatInt(10000), FindTps(musics_metadata, 1, row.row_index - 1)))

RECURSIVE LevelRowTimes(_, _, _)
\* the loop over rows[1..] (53-80) up to rows[n]; rows[0] is sequence element 1
LevelRowTimes(rows, musics_metadata, n) ==
    IF n < 1 THEN <<>>
    ELSE LET before == LevelRowTimes(rows, musics_metadata, n - 1)
             cumulative_time == IF before = <<>> THEN <<0, 1>> ELSE before[Len(before)].end_time
         IN  Append(before,
                    [row_index |-> n,
                     start_time |-> cumulative_time,
                     end_time |-> RatAdd(cumulative_time,
                                         RowDuration(rows[n + 1], musics_metadata))])

RECURSIVE FindRow(_, _, _)
\* the first window that holds the time, 0 for none (90-96)
FindRow(level_row_times, k, time) ==
    IF k > Len(level_row_times) THEN 0
    ELSE IF /\ RatLe(level_row_times[k].start_time, RatInt(time))
            /\ RatLt(RatInt(time), level_row_times[k].end_time)
         THEN k
         ELSE FindRow(level_row_times, k + 1, time)

RECURSIVE PlaceNotes(_, _, _, _, _)
\* the loop over the sorted notes (83-136)
PlaceNotes(all_notes, k, level_row_times, rows, indicators) ==
    IF k > Len(all_notes) THEN indicators
    ELSE LET note == all_notes[k].note
             target == FindRow(level_row_times, 1, note.time)
         IN  IF note.midi < 21 \/ note.midi > 108
             THEN PlaceNotes(all_notes, k + 1, level_row_times, rows, indicators)
             ELSE IF target = 0
             THEN PlaceNotes(all_notes, k + 1, level_row_times, rows, indicators)
             ELSE IF \/ rows[level_row_times[target].row_index + 1].row_type = "START"
                     \/ rows[level_row_times[target].row_index + 1].rectangles = 0
             THEN PlaceNotes(all_notes, k + 1, level_row_times, rows, indicators)
             ELSE PlaceNotes(all_notes, k + 1, level_row_times, rows,
                             Append(indicators,
                                    [note_id |-> all_notes[k].note_id,
                                     row_index |-> level_row_times[target].row_index,
                                     time |-> note.time,
                                     is_consumed |-> FALSE,
                                     ref |-> all_notes[k].ref]))

build_note_indicators(midi_json, rows, musics_metadata) ==
    IF ~midi_json.loaded \/ Len(midi_json.tracks) = 0 \/ Len(rows) = 0 THEN <<>>
    ELSE PlaceNotes(SortByTime(CollectNotes(midi_json, Len(midi_json.tracks))), 1,
                    LevelRowTimes(rows, musics_metadata, Len(rows) - 1), rows, <<>>)

\* notes at 0 s, just before and just after a third of a second, at 0.5 s,
\* 0.9996 s and 1 s (both 1000 ms) and at 2 s; pitches in and out of 21..108
BiFirstTracks ==
    { <<[time |-> 0, midi |-> 48], [time |-> 3333, midi |-> 52]>>,
      <<[time |-> 3334, midi |-> 48], [time |-> 0, midi |-> 20]>>,
      <<[time |-> 5000, midi |-> 48], [time |-> 5000, midi |-> 109]>>,
      <<[time |-> 9996, midi |-> 48], [time |-> 10000, midi |-> 48]>>,
      <<[time |-> 6000, midi |-> 52], [time |-> 3334, midi |-> 48], [time |-> 20000, midi |-> 48]>> }

BiSecondTracks ==
    { <<>>, <<[time |-> 0, midi |-> 48]>>, <<[time |-> 7000, midi |-> 52]>> }

BiTimelines ==
    {[loaded |-> TRUE, tracks |-> <<f, s>>] : f \in BiFirstTracks, s \in BiSecondTracks}
    \cup {[loaded |-> TRUE, tracks |-> <<>>], NoMidiData}

\* level rows: one tile of base height, of double height, of half height, and
\* an empty row
BiRowKinds ==
    { [row_type |-> "SINGLE", height_multiplier |-> <<1, 1>>, rectangles |-> 1],
      [row_type |-> "SINGLE", height_multiplier |-> <<2, 1>>, rectangles |-> 1],
      [row_type |-> "DOUBLE", height_multiplier |-> <<1, 2>>, rectangles |-> 2],
      [row_type |-> "EMPTY", height_multiplier |-> <<1, 1>>, rectangles |-> 0] }

\* the START row followed by the level rows, row_index counting from 0
BiRowsOf(kinds) ==
    [i \in 1..(Len(kinds) + 1) |->
        IF i = 1
        THEN [row_index |-> 0, row_type |-> "START", height_multiplier |-> <<1, 1>>,
              rectangles |-> 1]
        ELSE [row_index |-> i - 1, row_type |-> kinds[i - 1].row_type,
              height_multiplier |-> kinds[i - 1].height_multiplier,
              rectangles |-> kinds[i - 1].rectangles]]

BiRows == {BiRowsOf(kinds) : kinds \in SeqsUpTo(BiRowKinds, MaxLevelRows)} \cup {<<>>}

\* no section (the default tps), one section over all rows, two sections of
\* one row and of the rest
BiMetadata ==
    { <<>>,
      <<[tps |-> <<3, 1>>, start_row_index |-> 0, end_row_index |-> MaxLevelRows + 1]>>,
      <<[tps |-> <<2, 1>>, start_row_index |-> 0, end_row_index |-> 1],
        [tps |-> <<5, 2>>, start_row_index |-> 1, end_row_index |-> MaxLevelRows + 1]>> }

\* stopwatch times of the playback calls: 0 s, 0.34 s, 0.7 s, 1 s, 2.05 s
BiClock == {0, 3400, 7000, 10000, 20500}

BiIdle ==
    /\ bi_midi_json = NoMidiData
    /\ bi_rows = <<>>
    /\ bi_metadata = <<>>
    /\ bi_indicators = <<>>
    /\ bi_rebuilt = <<>>
    /\ bi_played_notes = {}
    /\ bi_scans = <<>>
    /\ bi_pc = "idle"

BiInit ==
    /\ bi_midi_json \in BiTimelines
    /\ bi_rows \in BiRows
    /\ bi_metadata \in BiMetadata
    /\ bi_indicators = <<>>
    /\ bi_rebuilt = <<>>
    /\ bi_played_notes = {}
    /\ bi_scans = <<>>
    /\ bi_pc = "loaded"

\* the indicators are built from the timeline and the rows
BiBuild ==
    /\ bi_pc = "loaded"
    /\ bi_indicators' = build_note_indicators(bi_midi_json, bi_rows, bi_metadata)
    /\ bi_pc' = "playing"
    /\ UNCHANGED <<bi_midi_json, bi_rows, bi_metadata, bi_rebuilt, bi_played_notes, bi_scans>>
    /\ UNCHANGED bi_frame

\* one frame: update_midi_playback(current_time) on the same timeline, the
\* stopwatch never running backwards
BiUpdate ==
    /\ bi_pc = "playing"
    /\ Len(bi_scans) < MaxPlaybackCalls
    /\ \E current_time \in BiClock :
          /\ bi_scans # <<>> => current_time >= bi_scans[Len(bi_scans)].time
          /\ LET r == update_midi_playback(bi_midi_json, bi_played_notes, current_time)
             IN  /\ bi_played_notes' = r.played
                 /\ bi_scans' = Append(bi_scans, [time |-> current_time, ids |-> r.ids,
                                                  sounded |-> r.sounded])
    /\ UNCHANGED <<bi_midi_json, bi_rows, bi_metadata, bi_indicators, bi_rebuilt, bi_pc>>
    /\ UNCHANGED bi_frame

\* the indicators are built again from the same timeline and rows
BiRebuild ==
    /\ bi_pc = "playing"
    /\ bi_rebuilt' = build_note_indicators(bi_midi_json, bi_rows, bi_metadata)
    /\ bi_pc' = "rebuilt"
    /\ UNCHANGED <<bi_midi_json, bi_rows, bi_metadata, bi_indicators, bi_played_notes, bi_scans>>
    /\ UNCHANGED bi_frame

(***************************************************************************)
(* One component of a section on both sides of the compiler: the row        *)
(* generate_results gives it (level_loader.ts 224-250, 252-254) with the    *)
(* time it scrolls (calculate_tps 396-399, note_indicator.ts 66-69), and    *)
(* the seconds its ticks last in the section's part (parse_song 1128-1150,  *)
(* convert_to_midi_json 1259-1268, ticks_to_seconds 1399-1421).  Seconds    *)
(* are exact fractions.                                                     *)
(***************************************************************************)
\* every baseBeats value of the multiplier table, and 2, which the table lacks
RtBaseBeats == {Rat(15, BASEBEATS_MAP[key]) : key \in DOMAIN BASEBEATS_MAP} \cup {<<2, 1>>}

\* the section's own bpm, or none (the document's baseBpm of 120 applies)
RtBpms == {JUndef, JNum(<<60, 1>>), JNum(<<90, 1>>), JNum(<<200, 1>>)}

\* layout durations: the nine letters, and the sums K + L and O + P
RtDurations == {DURATION_MAP[l] : l \in DOMAIN DURATION_MAP} \cup {48, 3}

RtNoRow == [type |-> "", height_multiplier |-> <<0, 1>>]
RtNoSeconds == <<-1, 1>>

RtIdle ==
    /\ rt_music = JNullEntry
    /\ rt_component = [original_type |-> "", duration |-> 0]
    /\ rt_row = RtNoRow
    /\ rt_row_seconds = RtNoSeconds
    /\ rt_part_seconds = RtNoSeconds
    /\ rt_pc = "idle"

RtInit ==
    /\ rt_music \in {JEntry(JNum(<<0, 1>>), bpm, JNum(v), JArray(<<>>)) :
                        bpm \in RtBpms, v \in RtBaseBeats}
    /\ rt_component \in [original_type : {"SINGLE", "EMPTY"}, duration : RtDurations]
    /\ rt_row = RtNoRow
    /\ rt_row_seconds = RtNoSeconds
    /\ rt_part_seconds = RtNoSeconds
    /\ rt_pc = "layout"

\* the row of the component (process_music 254, generate_results) and the length
\* of its time window: height_multiplier * (1 / tps)
RtRow ==
    /\ rt_pc = "layout"
    /\ LET unit_divisor == RatMul(RatInt(32), rt_music.baseBeats.num)
           row == generate_results(<<rt_component>>, {}, unit_divisor)[1]
           tps == calculate_tps(rt_music, 120)
       IN  /\ rt_row' = row
           /\ rt_row_seconds' = RatMul(row.height_multiplier, RatDiv(RatInt(1), tps))
    /\ rt_pc' = "timeline"
    /\ UNCHANGED <<rt_music, rt_component, rt_part_seconds>>
    /\ UNCHANGED rt_frame

\* the part's tempo (1128-1150, 1259-1268) and the seconds that
\* duration * multiplier ticks last from the part's breakpoint at tick 0
RtPart ==
    /\ rt_pc = "timeline"
    /\ LET m == get_base_beats_multiplier(JsString(rt_music.baseBeats))
       IN  IF m.thrown
           THEN /\ rt_pc' = "thrown"
                /\ UNCHANGED rt_part_seconds
           ELSE /\ rt_pc' = "done"
                /\ rt_part_seconds' =
                      ticks_to_seconds(rt_component.duration * m.value,
                                       <<[ticks |-> 0,
                                          bpm |-> Rat(part_bpm(rt_music, 120, m.value), 30),
                                          time |-> <<0, 1>>]>>,
                                       960)
    /\ UNCHANGED <<rt_music, rt_component, rt_row, rt_row_seconds>>
    /\ UNCHANGED rt_frame

(***************************************************************************)
(* Play on a loaded level: the GameStateManager (game_state.ts 163-786)     *)
(* behind the input routing of the GameController (part_000 70-97).  The    *)
(* game data is a record of state, rows, scroll_offset, active_row_index,   *)
(* completed_rows_count, total_completed_height and game_won_time (-1 for   *)
(* null).  A row keeps row_index, row_type, y_position, height, its         *)
(* rectangles and the two flags; a rectangle keeps slot_index, y, height,   *)
(* is_pressed, is_holding, progress and is_released_early.  Vertical        *)
(* positions are pixels; horizontal positions count half column widths, so  *)
(* a rectangle of slot s spans 2s..2s+2 and a pointer in the middle of      *)
(* column c is at 2c+1.  Sounds, particles, opacity, the game-over flash    *)
(* and the game-over animation are left out: no method of the model reads   *)
(* them.  scroll_delta stands for scroll_speed * delta_time, whatever tps   *)
(* update_current_music has selected.                                       *)
(***************************************************************************)
SCREEN_HEIGHT == 720
BASE_ROW_HEIGHT == 180

\* bound: update_scroll is not followed past this offset
MaxScrollOffset == 1080

calculate_slot_x(slot_index) == 2 * slot_index
calculate_column_width == 2

point_in_rect(point_x, point_y, rect_x, rect_y, rect_width, rect_height) ==
    /\ point_x >= rect_x /\ point_x <= rect_x + rect_width
    /\ point_y >= rect_y /\ point_y <= rect_y + rect_height

create_rectangle(slot_index, y_position, height) ==
    [slot_index |-> slot_index, y |-> y_position, height |-> height, is_pressed |-> FALSE,
     is_holding |-> FALSE, progress |-> 0, is_released_early |-> FALSE]

\* the rows of a level (game_state.ts 94-161, row generator 470-640): the START
\* row at HEIGHT - 2 * BASE_ROW_HEIGHT with its tile in start_slot, then one row
\* per entry of level = [type, height, slots], each above the one before
GmRowsOf(start_slot, level) ==
    LET start_y == SCREEN_HEIGHT - BASE_ROW_HEIGHT * 2
    IN  [i \in 1..(Len(level) + 1) |->
            IF i = 1
            THEN [row_index |-> 0, row_type |-> "START", y_position |-> start_y,
                  height |-> BASE_ROW_HEIGHT,
                  rectangles |-> <<create_rectangle(start_slot, start_y, BASE_ROW_HEIGHT)>>,
                  is_completed |-> FALSE, is_active |-> TRUE]
            ELSE LET row_data == level[i - 1]
                     current_y == start_y - SumSeq([k \in 1..(i - 1) |-> level[k].height])
                 IN  [row_index |-> i - 1, row_type |-> row_data.type,
                      y_position |-> current_y, height |-> row_data.height,
                      rectangles |-> [k \in 1..Len(row_data.slots) |->
                                         create_rectangle(row_data.slots[k], current_y,
                                                          row_data.height)],
                      is_completed |-> row_data.type = "EMPTY", is_active |-> FALSE]]

\* the game data of create_initial_game_state (36-57) and load_level (193-218)
GmFresh(rows) ==
    [state |-> "PAUSED", rows |-> rows, scroll_offset |-> 0, active_row_index |-> 0,
     completed_rows_count |-> 0, total_completed_height |-> 0, game_won_time |-> -1]

is_game_over(g) ==
    g.state \in {"GAME_OVER_MISCLICKED", "GAME_OVER_OUT_OF_BOUNDS", "GAME_WON"}

is_paused(g) == g.state = "PAUSED" \/ is_game_over(g)

is_row_visible(row, scroll_offset) ==
    LET screen_y == row.y_position + scroll_offset
    IN  screen_y + row.height > 0 /\ screen_y < SCREEN_HEIGHT

\* get_active_row (430-436): the position of the active row in rows, 0 for null
get_active_row(g) ==
    IF g.active_row_index >= 0 /\ g.active_row_index < Len(g.rows)
    THEN g.active_row_index + 1 ELSE 0

\* find_next_incomplete_row (626-634): a row_index, -1 for null
find_next_incomplete_row(g, current_index) ==
    LET later == {i \in (current_index + 1)..(Len(g.rows) - 1) : ~g.rows[i + 1].is_completed}
    IN  IF later = {} THEN -1 ELSE CHOOSE i \in later : \A o \in later : i <= o

\* check_row_completion (606-624) on the row at position r
check_row_completion(g, r) ==
    IF g.rows[r].row_type = "EMPTY" THEN [g EXCEPT !.rows[r].is_completed = TRUE]
    ELSE IF \A k \in 1..Len(g.rows[r].rectangles) : g.rows[r].rectangles[k].is_pressed
    THEN LET next_row == find_next_incomplete_row(g, g.rows[r].row_index)
         IN  [g EXCEPT !.rows[r].is_completed = TRUE,
                       !.rows[r].is_active = FALSE,
                       !.completed_rows_count = @ + 1,
                       !.total_completed_height = @ + g.rows[r].height,
                       !.active_row_index = IF next_row # -1 THEN next_row ELSE @]
    ELSE g

\* complete_rectangle (589-596) on rectangle k of the row at position r
complete_rectangle(g, r, k) ==
    check_row_completion([g EXCEPT !.rows[r].rectangles[k].is_pressed = TRUE], r)

\* press_rectangle (598-604)
press_rectangle(g, r, k) == complete_rectangle(g, r, k)

trigger_game_over_misclicked(g) == [g EXCEPT !.state = "GAME_OVER_MISCLICKED"]

trigger_game_over_out_of_bounds(g) == [g EXCEPT !.state = "GAME_OVER_OUT_OF_BOUNDS"]

\* trigger_game_won (715-720); times are counted from the moment of the win
trigger_game_won(g) ==
    IF g.state # "GAME_WON" THEN [g EXCEPT !.state = "GAME_WON", !.game_won_time = 0] ELSE g

\* rectangles.find(r => r.slot_index === slot_index): a position, 0 for undefined
FindRect(row, slot_index) ==
    LET found == {k \in 1..Len(row.rectangles) : row.rectangles[k].slot_index = slot_index}
    IN  IF found = {} THEN 0 ELSE CHOOSE k \in found : \A o \in found : k <= o

\* the key-up branch of both input handlers (474-487, 541-554)
ReleaseRect(g, r, k) ==
    IF k # 0 /\ g.rows[r].rectangles[k].is_holding /\ ~g.rows[r].rectangles[k].is_pressed
    THEN IF g.rows[r].rectangles[k].progress < g.rows[r].rectangles[k].height
         THEN complete_rectangle([g EXCEPT !.rows[r].rectangles[k].is_holding = FALSE,
                                           !.rows[r].rectangles[k].is_released_early = TRUE],
                                 r, k)
         ELSE [g EXCEPT !.rows[r].rectangles[k].is_holding = FALSE]
    ELSE g

\* a long tile starts its hold at the base tile height (495-497, 566-568)
HoldRect(g, r, k) ==
    [g EXCEPT !.rows[r].rectangles[k].is_holding = TRUE,
              !.rows[r].rectangles[k].progress = BASE_ROW_HEIGHT]

\* handle_slot_input from the active row on (456-513), r its position
SlotInputOnRow(g, is_bot_active, r, slot_index, screen_y, is_down) ==
    IF r = 0 THEN g
    ELSE LET active_row == g.rows[r]
             row_top == active_row.y_position + g.scroll_offset
             row_bottom == row_top + active_row.height
             pressed_rect == FindRect(active_row, slot_index)
         IN  IF is_bot_active
             THEN IF is_down /\ pressed_rect = 0 /\ screen_y >= row_top /\ screen_y <= row_bottom
                  THEN trigger_game_over_misclicked(g) ELSE g
             ELSE IF ~is_down THEN ReleaseRect(g, r, pressed_rect)
             ELSE IF /\ pressed_rect # 0
                     /\ ~active_row.rectangles[pressed_rect].is_pressed
                     /\ ~active_row.rectangles[pressed_rect].is_holding
             THEN IF active_row.height > BASE_ROW_HEIGHT
                  THEN IF screen_y >= row_bottom - BASE_ROW_HEIGHT /\ screen_y <= row_bottom
                       THEN HoldRect(g, r, pressed_rect) ELSE g
                  ELSE press_rectangle(g, r, pressed_rect)
             ELSE IF pressed_rect = 0 /\ screen_y >= row_top /\ screen_y <= row_bottom
             THEN trigger_game_over_misclicked(g)
             ELSE g

\* rows.find(r => r.row_type === RowType.START): a position, 0 for undefined
FindStartRow(g) ==
    LET found == {r \in 1..Len(g.rows) : g.rows[r].row_type = "START"}
    IN  IF found = {} THEN 0 ELSE CHOOSE r \in found : \A o \in found : r <= o

\* GameStateManager.handle_slot_input (438-514); the game data it leaves
handle_slot_input(g, is_bot_active, slot_index, screen_x, screen_y, is_down) ==
    IF is_game_over(g) THEN g
    ELSE LET start_row == FindStartRow(g)
         IN  IF /\ is_down /\ g.state = "PAUSED"
                /\ start_row # 0 /\ ~g.rows[start_row].is_completed
             THEN LET start_rect == g.rows[start_row].rectangles[1]
                      start_screen_y == start_rect.y + g.scroll_offset
                  IN  IF point_in_rect(screen_x, screen_y,
                                       calculate_slot_x(start_rect.slot_index), start_screen_y,
                                       calculate_column_width, start_rect.height)
                      THEN [press_rectangle(g, start_row, 1) EXCEPT !.state = "PLAYING"]
                      ELSE g
             ELSE SlotInputOnRow(g, is_bot_active, get_active_row(g), slot_index, screen_y,
                                 is_down)

\* handle_keyboard_input from the active row on (526-586), r its position
KeyboardInputOnRow(g, is_bot_active, r, slot_index, is_down) ==
    IF r = 0 THEN g
    ELSE LET active_row == g.rows[r]
             row_bottom == active_row.y_position + g.scroll_offset + active_row.height
             timing_zone == SCREEN_HEIGHT \div 2
             pressed_rect == FindRect(active_row, slot_index)
         IN  IF is_bot_active
             THEN IF is_down /\ pressed_rect = 0 /\ row_bottom >= timing_zone
                  THEN trigger_game_over_misclicked(g) ELSE g
             ELSE IF ~is_down THEN ReleaseRect(g, r, pressed_rect)
             ELSE IF row_bottom < timing_zone THEN g
             ELSE IF /\ pressed_rect # 0
                     /\ ~active_row.rectangles[pressed_rect].is_pressed
                     /\ ~active_row.rectangles[pressed_rect].is_holding
             THEN IF active_row.height > BASE_ROW_HEIGHT
                  THEN HoldRect(g, r, pressed_rect)
                  ELSE press_rectangle(g, r, pressed_rect)
             ELSE IF pressed_rect = 0 THEN trigger_game_over_misclicked(g)
             ELSE g

\* GameStateManager.handle_keyboard_input (516-587)
handle_keyboard_input(g, is_bot_active, slot_index, is_down) ==
    IF is_game_over(g) THEN g
    ELSE KeyboardInputOnRow(g, is_bot_active, get_active_row(g), slot_index, is_down)

\* update_active_row (395-428)
update_active_row(g) ==
    LET r == get_active_row(g)
        visible_incomplete_rows ==
            {i \in 1..Len(g.rows) :
                ~g.rows[i].is_completed /\ is_row_visible(g.rows[i], g.scroll_offset)}
    IN  IF /\ r # 0 /\ g.rows[r].row_type # "START"
           /\ g.rows[r].y_position + g.scroll_offset > SCREEN_HEIGHT
           /\ ~g.rows[r].is_completed
        THEN trigger_game_over_out_of_bounds(g)
        ELSE IF /\ \A i \in 1..Len(g.rows) : g.rows[i].is_completed
                /\ Len(g.rows) > 0
                /\ g.rows[Len(g.rows)].y_position + g.scroll_offset > SCREEN_HEIGHT
        THEN trigger_game_won(g)
        ELSE IF visible_incomplete_rows # {}
        THEN [g EXCEPT !.active_row_index =
                 g.rows[CHOOSE i \in visible_incomplete_rows :
                           \A o \in visible_incomplete_rows :
                               g.rows[o].y_position <= g.rows[i].y_position].row_index]
        ELSE g

RECURSIVE HoldLoop(_, _, _, _)
\* the loop over the rectangles of the active row in update_scroll (331-342)
HoldLoop(g, r, k, scroll_delta) ==
    IF k > Len(g.rows[r].rectangles) THEN g
    ELSE LET rect == g.rows[r].rectangles[k]
         IN  IF rect.is_holding /\ ~rect.is_pressed
             THEN IF rect.progress + scroll_delta >= rect.height
                  THEN HoldLoop(complete_rectangle(
                                    [g EXCEPT !.rows[r].rectangles[k].progress = rect.height,
                                              !.rows[r].rectangles[k].is_holding = FALSE],
                                    r, k),
                                r, k + 1, scroll_delta)
                  ELSE HoldLoop([g EXCEPT !.rows[r].rectangles[k].progress = @ + scroll_delta],
                                r, k + 1, scroll_delta)
             ELSE HoldLoop(g, r, k + 1, scroll_delta)

\* update_scroll (319-346) with scroll_delta = scroll_speed * delta_time
update_scroll(g, scroll_delta) ==
    IF is_paused(g) \/ is_game_over(g) THEN g
    ELSE LET scrolled == [g EXCEPT !.scroll_offset = @ + scroll_delta]
             r == get_active_row(scrolled)
         IN  update_active_row(IF r = 0 THEN scrolled ELSE HoldLoop(scrolled, r, 1, scroll_delta))

RECURSIVE BotLoop(_, _, _, _)
\* the loops over the rectangles of the active row in update_bot (366-391)
BotLoop(g, r, k, is_long_tile) ==
    IF k > Len(g.rows[r].rectangles) THEN g
    ELSE LET rect == g.rows[r].rectangles[k]
         IN  IF is_long_tile
             THEN BotLoop(IF ~rect.is_pressed /\ ~rect.is_holding THEN HoldRect(g, r, k) ELSE g,
                          r, k + 1, is_long_tile)
             ELSE BotLoop(IF ~rect.is_pressed THEN press_rectangle(g, r, k) ELSE g,
                          r, k + 1, is_long_tile)

\* update_bot (348-393)
update_bot(g, is_bot_active) ==
    IF ~is_bot_active \/ is_game_over(g) THEN g
    ELSE LET r == get_active_row(g)
         IN  IF r = 0 THEN g
             ELSE IF g.rows[r].row_type = "START" THEN g
             ELSE LET row_top == g.rows[r].y_position + g.scroll_offset
                      row_bottom == row_top + g.rows[r].height
                      trigger_y == SCREEN_HEIGHT \div 2
                      is_long_tile == g.rows[r].height > BASE_ROW_HEIGHT
                  IN  IF is_long_tile
                      THEN IF row_bottom - BASE_ROW_HEIGHT >= trigger_y
                           THEN BotLoop(g, r, 1, TRUE) ELSE g
                      ELSE IF row_top >= trigger_y THEN BotLoop(g, r, 1, FALSE) ELSE g

\* levels as generate_all_rows and generate_rows_from_level_data lay them out:
\* one tile; a long tile under a pair; an empty row under a tile; empty rows alone
GmLevels ==
    { GmRowsOf(1, <<[type |-> "SINGLE", height |-> 180, slots |-> <<2>>]>>),
      GmRowsOf(0, <<[type |-> "SINGLE", height |-> 360, slots |-> <<1>>],
                    [type |-> "DOUBLE", height |-> 180, slots |-> <<0, 2>>]>>),
      GmRowsOf(1, <<[type |-> "EMPTY", height |-> 180, slots |-> <<>>],
                    [type |-> "SINGLE", height |-> 180, slots |-> <<3>>]>>),
      GmRowsOf(2, <<[type |-> "EMPTY", height |-> 90, slots |-> <<>>]>>) }

\* pointer heights: the middle of each base-height band of the screen
GmScreenYs == {90, 270, 450, 630}

\* scroll_speed * delta_time of a frame: half a base height, a base height
GmScrollDeltas == {90, 180}

GmIdle ==
    /\ gm_data = GmFresh(<<>>)
    /\ gm_bot = FALSE
    /\ gm_last = "idle"

\* a GameStateManager with a level in place, nothing called yet
GmInit ==
    /\ gm_data \in {GmFresh(rows) : rows \in GmLevels}
    /\ gm_bot \in BOOLEAN
    /\ gm_last = "new"

\* a pointer event routed by GameController.handle_slot_input (part_000 70-97)
GmPointer ==
    /\ \E slot_index \in 0..3, screen_y \in GmScreenYs, is_down \in BOOLEAN :
          gm_data' = IF is_game_over(gm_data) THEN gm_data
                     ELSE handle_slot_input(gm_data, gm_bot, slot_index,
                                            calculate_slot_x(slot_index) + 1, screen_y, is_down)
    /\ gm_last' = "handle_slot_input"
    /\ UNCHANGED gm_bot
    /\ UNCHANGED gm_frame

\* a keyboard event routed by GameController.handle_slot_input (part_000 70-97)
GmKeyboard ==
    /\ \E slot_index \in 0..3, is_down \in BOOLEAN :
          gm_data' = IF is_game_over(gm_data) THEN gm_data
                     ELSE handle_keyboard_input(gm_data, gm_bot, slot_index, is_down)
    /\ gm_last' = "handle_keyboard_input"
    /\ UNCHANGED gm_bot
    /\ UNCHANGED gm_frame

\* toggle_pause (252-260)
GmTogglePause ==
    /\ gm_data' = IF gm_bot THEN gm_data ELSE toggle_pause(gm_data)
    /\ gm_last' = "toggle_pause"
    /\ UNCHANGED gm_bot
    /\ UNCHANGED gm_frame

GmUpdateScroll ==
    /\ gm_data.scroll_offset < MaxScrollOffset
    /\ \E scroll_delta \in GmScrollDeltas : gm_data' = update_scroll(gm_data, scroll_delta)
    /\ gm_last' = "update_scroll"
    /\ UNCHANGED gm_bot
    /\ UNCHANGED gm_frame

GmUpdateBot ==
    /\ gm_data' = update_bot(gm_data, gm_bot)
    /\ gm_last' = "update_bot"
    /\ UNCHANGED gm_bot
    /\ UNCHANGED gm_frame

\* update_game_won (764-770), half a second and a full second after the win:
\* reset() installs a fresh level
GmUpdateGameWon ==
    /\ \E current_time \in {500, 1000} :
          IF /\ gm_data.state = "GAME_WON" /\ gm_data.game_won_time # -1
             /\ current_time - gm_data.game_won_time >= 1000
          THEN \E rows \in GmLevels : gm_data' = GmFresh(rows)
          ELSE gm_data' = gm_data
    /\ gm_last' = "update_game_won"
    /\ UNCHANGED gm_bot
    /\ UNCHANGED gm_frame

\* reset (184-188)
GmReset ==
    /\ \E rows \in GmLevels : gm_data' = GmFresh(rows)
    /\ gm_last' = "reset"
    /\ UNCHANGED gm_bot
    /\ UNCHANGED gm_frame

\* load_level (193-218)
GmLoadLevel ==
    /\ \E rows \in GmLevels : gm_data' = GmFresh(rows)
    /\ gm_last' = "load_level"
    /\ UNCHANGED gm_bot
    /\ UNCHANGED gm_frame

(***************************************************************************)
(* Specifications                                                          *)
(***************************************************************************)
InitDivider == SdInit /\ PnIdle /\ AlIdle /\ CoIdle /\ LdIdle /\ PbIdle /\ NiIdle /\ CdIdle /\ LyIdle /\ TtIdle /\ PtIdle /\ GlIdle /\ PmIdle /\ SgIdle /\ SpIdle /\ ShIdle /\ BiIdle /\ RtIdle /\ GmIdle
NextDivider == SdDivide \/ SdReset
SpecDivider == InitDivider /\ [][NextDivider]_vars

InitNotes == PnInit /\ SdIdle /\ AlIdle /\ CoIdle /\ LdIdle /\ PbIdle /\ NiIdle /\ CdIdle /\ LyIdle /\ TtIdle /\ PtIdle /\ GlIdle /\ PmIdle /\ SgIdle /\ SpIdle /\ ShIdle /\ BiIdle /\ RtIdle /\ GmIdle
NextNotes == PnProcess
SpecNotes == InitNotes /\ [][NextNotes]_vars

InitAlign == AlInit /\ SdIdle /\ PnIdle /\ CoIdle /\ LdIdle /\ PbIdle /\ NiIdle /\ CdIdle /\ LyIdle /\ TtIdle /\ PtIdle /\ GlIdle /\ PmIdle /\ SgIdle /\ SpIdle /\ ShIdle /\ BiIdle /\ RtIdle /\ GmIdle
NextAlign == AlVerify
SpecAlign == InitAlign /\ [][NextAlign]_vars

InitCompile == CoInit /\ SdIdle /\ PnIdle /\ AlIdle /\ LdIdle /\ PbIdle /\ NiIdle /\ CdIdle /\ LyIdle /\ TtIdle /\ PtIdle /\ GlIdle /\ PmIdle /\ SgIdle /\ SpIdle /\ ShIdle /\ BiIdle /\ RtIdle /\ GmIdle
NextCompile == CoCompile
SpecCompile == InitCompile /\ [][NextCompile]_vars

InitLoad == LdInit /\ SdIdle /\ PnIdle /\ AlIdle /\ CoIdle /\ PbIdle /\ NiIdle /\ CdIdle /\ LyIdle /\ TtIdle /\ PtIdle /\ GlIdle /\ PmIdle /\ SgIdle /\ SpIdle /\ ShIdle /\ BiIdle /\ RtIdle /\ GmIdle
NextLoad ==
    \/ LdClick \/ LdCancel \/ LdChangeNoFile \/ LdChange \/ LdReadError \/ LdOnLoad
    \/ GsTogglePause \/ GsReset
SpecLoad == InitLoad /\ [][NextLoad]_vars

InitPlayback == PbInit /\ SdIdle /\ PnIdle /\ AlIdle /\ CoIdle /\ LdIdle /\ NiIdle /\ CdIdle /\ LyIdle /\ TtIdle /\ PtIdle /\ GlIdle /\ PmIdle /\ SgIdle /\ SpIdle /\ ShIdle /\ BiIdle /\ RtIdle /\ GmIdle
NextPlayback == PbLoadMidiData \/ PbClearMidiData \/ PbResetPlayback \/ PbUpdate
SpecPlayback == InitPlayback /\ [][NextPlayback]_vars

InitIndicators == NiInit /\ SdIdle /\ PnIdle /\ AlIdle /\ CoIdle /\ LdIdle /\ PbIdle /\ CdIdle /\ LyIdle /\ TtIdle /\ PtIdle /\ GlIdle /\ PmIdle /\ SgIdle /\ SpIdle /\ ShIdle /\ BiIdle /\ RtIdle /\ GmIdle
NextIndicators == NiConsume \/ NiGetActive
SpecIndicators == InitIndicators /\ [][NextIndicators]_vars

InitDeterminism == CdInit /\ SdIdle /\ PnIdle /\ AlIdle /\ CoIdle /\ LdIdle /\ PbIdle /\ NiIdle /\ LyIdle /\ TtIdle /\ PtIdle /\ GlIdle /\ PmIdle /\ SgIdle /\ SpIdle /\ ShIdle /\ BiIdle /\ RtIdle /\ GmIdle
NextDeterminism == CdFirst \/ CdSecond
SpecDeterminism == InitDeterminism /\ [][NextDeterminism]_vars

InitLayout == LyInit /\ SdIdle /\ PnIdle /\ AlIdle /\ CoIdle /\ LdIdle /\ PbIdle /\ NiIdle /\ CdIdle /\ TtIdle /\ PtIdle /\ GlIdle /\ PmIdle /\ SgIdle /\ SpIdle /\ ShIdle /\ BiIdle /\ RtIdle /\ GmIdle
NextLayout == LyClassify
SpecLayout == InitLayout /\ [][NextLayout]_vars

InitTempo == TtInit /\ SdIdle /\ PnIdle /\ AlIdle /\ CoIdle /\ LdIdle /\ PbIdle /\ NiIdle /\ CdIdle /\ LyIdle /\ PtIdle /\ GlIdle /\ PmIdle /\ SgIdle /\ SpIdle /\ ShIdle /\ BiIdle /\ RtIdle /\ GmIdle
NextTempo == TtConvert
SpecTempo == InitTempo /\ [][NextTempo]_vars

InitTrack == PtInit /\ SdIdle /\ PnIdle /\ AlIdle /\ CoIdle /\ LdIdle /\ PbIdle /\ NiIdle /\ CdIdle /\ LyIdle /\ TtIdle /\ GlIdle /\ PmIdle /\ SgIdle /\ SpIdle /\ ShIdle /\ BiIdle /\ RtIdle /\ GmIdle
NextTrack == PtStep \/ PtFinish
SpecTrack == InitTrack /\ [][NextTrack]_vars

InitLength == GlInit /\ SdIdle /\ PnIdle /\ AlIdle /\ CoIdle /\ LdIdle /\ PbIdle /\ NiIdle /\ CdIdle /\ LyIdle /\ TtIdle /\ PtIdle /\ PmIdle /\ SgIdle /\ SpIdle /\ ShIdle /\ BiIdle /\ RtIdle /\ GmIdle
NextLength == GlMeasure
SpecLength == InitLength /\ [][NextLength]_vars

InitMusic == PmInit /\ SdIdle /\ PnIdle /\ AlIdle /\ CoIdle /\ LdIdle /\ PbIdle /\ NiIdle /\ CdIdle /\ LyIdle /\ TtIdle /\ PtIdle /\ GlIdle /\ SgIdle /\ SpIdle /\ ShIdle /\ BiIdle /\ RtIdle /\ GmIdle
NextMusic == PmProcess
SpecMusic == InitMusic /\ [][NextMusic]_vars

InitSong == SgInit /\ SdIdle /\ PnIdle /\ AlIdle /\ CoIdle /\ LdIdle /\ PbIdle /\ NiIdle /\ CdIdle /\ LyIdle /\ TtIdle /\ PtIdle /\ GlIdle /\ PmIdle /\ SpIdle /\ ShIdle /\ BiIdle /\ RtIdle /\ GmIdle
NextSong == SgParse \/ SgAlign \/ SgMessage \/ SgReturn
SpecSong == InitSong /\ [][NextSong]_vars

InitSplit == SpInit /\ SdIdle /\ PnIdle /\ AlIdle /\ CoIdle /\ LdIdle /\ PbIdle /\ NiIdle /\ CdIdle /\ LyIdle /\ TtIdle /\ PtIdle /\ GlIdle /\ PmIdle /\ SgIdle /\ ShIdle /\ BiIdle /\ RtIdle /\ GmIdle
NextSplit == SpSplit
SpecSplit == InitSplit /\ [][NextSplit]_vars

InitShrink == ShInit /\ SdIdle /\ PnIdle /\ AlIdle /\ CoIdle /\ LdIdle /\ PbIdle /\ NiIdle /\ CdIdle /\ LyIdle /\ TtIdle /\ PtIdle /\ GlIdle /\ PmIdle /\ SgIdle /\ SpIdle /\ BiIdle /\ RtIdle /\ GmIdle
NextShrink == ShShrink
SpecShrink == InitShrink /\ [][NextShrink]_vars

InitBuild == BiInit /\ SdIdle /\ PnIdle /\ AlIdle /\ CoIdle /\ LdIdle /\ PbIdle /\ NiIdle /\ CdIdle /\ LyIdle /\ TtIdle /\ PtIdle /\ GlIdle /\ PmIdle /\ SgIdle /\ SpIdle /\ ShIdle /\ RtIdle /\ GmIdle
NextBuild == BiBuild \/ BiUpdate \/ BiRebuild
SpecBuild == InitBuild /\ [][NextBuild]_vars

InitRowTime == RtInit /\ SdIdle /\ PnIdle /\ AlIdle /\ CoIdle /\ LdIdle /\ PbIdle /\ NiIdle /\ CdIdle /\ LyIdle /\ TtIdle /\ PtIdle /\ GlIdle /\ PmIdle /\ SgIdle /\ SpIdle /\ ShIdle /\ BiIdle /\ GmIdle
NextRowTime == RtRow \/ RtPart
SpecRowTime == InitRowTime /\ [][NextRowTime]_vars

InitPlay == GmInit /\ SdIdle /\ PnIdle /\ AlIdle /\ CoIdle /\ LdIdle /\ PbIdle /\ NiIdle /\ CdIdle /\ LyIdle /\ TtIdle /\ PtIdle /\ GlIdle /\ PmIdle /\ SgIdle /\ SpIdle /\ ShIdle /\ BiIdle /\ RtIdle
NextPlay == GmPointer \/ GmKeyboard \/ GmTogglePause \/ GmUpdateScroll \/ GmUpdateBot \/ GmUpdateGameWon \/ GmReset \/ GmLoadLevel
SpecPlay == InitPlay /\ [][NextPlay]_vars

(***************************************************************************)
(* Claims                                                                  *)
(***************************************************************************)
\* the validation the pending notes must pass: operator combination and ornament shape
PnValidated(notes) ==
    /\ ~operators_rejected(notes)
    /\ CountOf(notes, 6) > 0 => ~ornament_malformed(notes)

\* C1: duration preservation. For every pending-notes list that passes validation,
\* every length >= 1 and every bpm >= 1, process_notes returns without error and
\* the Delay values it emits sum to exactly length (plain/divider, @, %, ! and ^).
C1_DurationPreserved ==
    (pn_pc = "done" /\ PnValidated(pn_notes) /\ pn_length >= 1 /\ pn_bpm >= 1)
        => (~pn_result.thrown /\ TotalDelay(pn_result.msgs) = pn_length)

\* C1 witness: a two-divider chord whose length is not a multiple of 3 has been
\* processed (the shares differ, the carry of the divider is used)
C1_Witness ==
    /\ pn_pc = "done" /\ PnValidated(pn_notes)
    /\ CountOf(pn_notes, 2) = 2 /\ pn_length % 3 # 0
    /\ \E i, j \in 1..Len(pn_result.msgs) :
          /\ pn_result.msgs[i].type = 2 /\ pn_result.msgs[j].type = 2
          /\ pn_result.msgs[i].value # pn_result.msgs[j].value

\* C2: exact divider. On a fresh SafeDivider, after k calls divide(a, b) with the
\* same a >= 0 and b >= 1 the results sum to floor(k*a/b) and the remainder stays
\* in 0..b-1; b calls sum to exactly a; three calls of divide(10, 3) sum to 10.
C2_ExactDivider ==
    (sd_status \in {"fresh", "used"} /\ sd_b >= 1) =>
        /\ sd_sum = (sd_calls * sd_a) \div sd_b
        /\ sd_remainder \in 0..(sd_b - 1)
        /\ sd_calls = sd_b => sd_sum = sd_a
        /\ (sd_a = 10 /\ sd_b = 3 /\ sd_calls = 3) => sd_sum = 10

\* C2 witness: divide(10, 3) has been called three times and the last call carried
C2_Witness ==
    sd_status = "used" /\ sd_a = 10 /\ sd_b = 3 /\ sd_calls = 3 /\ sd_last = 4

\* C3: track alignment. After verify_track_length returns for a part with at least
\* one track, every track's summed Delay ticks equal those of track 0; a longer
\* track lost exactly the excess, a shorter one gained exactly the deficit as one
\* trailing Delay (100 ticks against a reference of 80: shrunk by 20 to exactly 80).
C3_TrackAlignment ==
    (al_pc = "done" /\ ~al_result.thrown /\ Len(al_before) >= 1) =>
        LET ref == TotalDelay(al_before[1])
        IN  /\ Len(al_result.tracks) = Len(al_before)
            /\ al_result.tracks[1] = al_before[1]
            /\ \A i \in 1..Len(al_before) :
                  LET was == TotalDelay(al_before[i])
                      now == al_result.tracks[i]
                  IN  /\ TotalDelay(now) = ref
                      /\ was > ref => /\ TotalDelay(now) = was - (was - ref)
                                      /\ Len(now) = Len(al_before[i])
                      /\ was < ref => now = Append(al_before[i], Delay(ref - was))
                      /\ was = ref => now = al_before[i]
            /\ al_before = AlExample => TotalDelay(al_result.tracks[2]) = 80

\* C3 witness: the 100-tick track has been aligned against the 80-tick reference
C3_Witness ==
    /\ al_pc = "done" /\ ~al_result.thrown /\ al_before = AlExample
    /\ TotalDelay(al_before[2]) = 100 /\ TotalDelay(al_result.tracks[2]) = 80

\* what the end-to-end example promises of the outcome r: one SINGLE row of height
\* multiplier 1, and a timeline whose only Note has the pitch of c (48) and starts at 0
EndToEndOutcome(r) ==
    /\ ~r.thrown
    /\ r.rows = <<[type |-> "SINGLE", height_multiplier |-> <<1, 1>>]>>
    /\ r.has_midi
    /\ SumSeq([k \in 1..Len(r.midi_json.tracks) |-> Len(r.midi_json.tracks[k].notes)]) = 1
    /\ \A k \in 1..Len(r.midi_json.tracks) : \A j \in 1..Len(r.midi_json.tracks[k].notes) :
          LET note == r.midi_json.tracks[k].notes[j]
          IN  note.midi = NOTE_TO_MIDI["c"] /\ note.midi = 48 /\ note.time = <<0, 1>>

\* C4 as stated: the document with baseBeats given as the string "1" compiles to the
\* promised rows and timeline.
C4_AsStated ==
    (co_pc = "done" /\ co_input = EndToEndInput(JStr("1"))) => EndToEndOutcome(co_result)

\* C4: end-to-end. The one-section document with baseBpm 120 and one music
\* {id: 0, baseBeats: 1, scores: ["(c)[N]"]}, baseBeats being the number 1, compiles to
\* exactly one SINGLE row of height multiplier 1 and a timeline with exactly one Note
\* of pitch 48 starting at time 0; with baseBeats the string "1" the call throws the
\* structural error on baseBeats and returns nothing.
C4_EndToEnd ==
    co_pc = "done" =>
        /\ co_input = EndToEndInput(JNum(<<1, 1>>)) => EndToEndOutcome(co_result)
        /\ co_input = EndToEndInput(JStr("1")) =>
              /\ co_result.thrown
              /\ co_result.err = "Invalid music entry: baseBeats must be a number"
              /\ co_result.rows = <<>> /\ ~co_result.has_midi

\* C4 witness: the document with the number 1 has been compiled to one row and one note
C4_Witness ==
    /\ co_pc = "done" /\ co_input = EndToEndInput(JNum(<<1, 1>>))
    /\ Len(co_result.rows) = 1 /\ co_result.has_midi
    /\ Len(co_result.midi_json.tracks[1].notes) = 1

\* an entry lacks a numeric id, a numeric baseBeats or an array scores
EntryInvalid(music) ==
    music.t # "object" \/ music.id.t # "number" \/ music.baseBeats.t # "number"
    \/ music.scores.t # "array"

\* the document is not an object, baseBpm is not a number, musics is not an array, or
\* some entry is invalid
StructurallyInvalid(data) ==
    \/ data.t # "object"
    \/ data.baseBpm.t # "number"
    \/ data.musics.t # "array"
    \/ \E k \in 1..Len(data.musics.items) : EntryInvalid(data.musics.items[k])

\* C5: structural validation comes first. Whenever the document is structurally
\* invalid, parse_and_combine_musics throws, no score string of any entry has been
\* parsed when it does, and no LevelData (rows, metadata, timeline) is returned.
C5_ValidationFirst ==
    (co_pc = "done" /\ StructurallyInvalid(co_input)) =>
        /\ co_result.thrown
        /\ co_result.scores_parsed = 0
        /\ co_result.rows = <<>> /\ co_result.musics = <<>> /\ ~co_result.has_midi

\* C5 witness: a compile has thrown on a document whose first entry is valid and has
\* scores, and whose second entry is invalid
C5_Witness ==
    /\ co_pc = "done" /\ co_result.thrown /\ co_input.musics.t = "array"
    /\ Len(co_input.musics.items) = 2
    /\ ~EntryInvalid(co_input.musics.items[1])
    /\ Len(co_input.musics.items[1].scores.items) > 0
    /\ EntryInvalid(co_input.musics.items[2])

\* the timeline conversion of one (valid) entry throws: unknown multiplier, no scores,
\* a track that does not parse, or tracks that cannot be aligned
EntryTimelineFails(music, base_bpm) ==
    LET m == get_base_beats_multiplier(JsString(music.baseBeats))
        scores == music.scores.items
        bpm == part_bpm(music, base_bpm, m.value)
        tracks == [t \in 1..Len(scores) |-> parse_track(scores[t], bpm, m.value)]
    IN  \/ m.thrown
        \/ Len(scores) = 0
        \/ \E t \in 1..Len(scores) : tracks[t].thrown
        \/ verify_track_length([t \in 1..Len(scores) |-> tracks[t].messages]).thrown

\* C6: timeline failure degrades and is all-or-nothing. For a structurally valid
\* document the call returns; if the conversion of any entry throws, the result has
\* the rows of every entry, the metadata of every entry and midi_json = null; a
\* timeline that is returned has every part.
C6_TimelineDegrades ==
    (co_pc = "done" /\ ~StructurallyInvalid(co_input)) =>
        LET items == co_input.musics.items
            fails == \E k \in 1..Len(items) :
                        EntryTimelineFails(items[k], co_input.baseBpm.num[1])
        IN  /\ ~co_result.thrown
            /\ Len(co_result.musics) = Len(items)
            /\ Len(co_result.rows) =
                  SumSeq([k \in 1..Len(items) |->
                             Len(process_music(items[k].baseBeats.num, items[k].scores.items))])
            /\ fails => (~co_result.has_midi /\ co_result.midi_json = NoMidi)
            /\ co_result.has_midi => Len(co_result.midi_json.tempos) = Len(items)

\* C6 witness: a two-entry document whose first entry converts and whose second does
\* not has been compiled to rows without a timeline
C6_Witness ==
    /\ co_pc = "done" /\ ~StructurallyInvalid(co_input)
    /\ Len(co_input.musics.items) = 2
    /\ ~EntryTimelineFails(co_input.musics.items[1], co_input.baseBpm.num[1])
    /\ EntryTimelineFails(co_input.musics.items[2], co_input.baseBpm.num[1])
    /\ ~co_result.thrown /\ ~co_result.has_midi /\ Len(co_result.rows) > 1

\* C8: section metadata partitions the row sequence. In a returned LevelData the
\* first section starts at row 0, each section ends where the next starts, the last
\* ends at rows.length, and every section has row_count = end - start.
C8_SectionsPartitionRows ==
    (co_pc = "done" /\ ~co_result.thrown) =>
        LET m == co_result.musics
        IN  /\ Len(m) = 0 => Len(co_result.rows) = 0
            /\ Len(m) > 0 => /\ m[1].start_row_index = 0
                             /\ m[Len(m)].end_row_index = Len(co_result.rows)
            /\ \A i \in 1..(Len(m) - 1) : m[i].end_row_index = m[i + 1].start_row_index
            /\ \A i \in 1..Len(m) : m[i].row_count = m[i].end_row_index - m[i].start_row_index

\* C8 witness: a LevelData with two sections, one of them without rows, was returned
C8_Witness ==
    /\ co_pc = "done" /\ ~co_result.thrown /\ Len(co_result.musics) = 2
    /\ co_result.musics[1].row_count = 0 /\ co_result.musics[2].row_count > 0

\* the duration of a parsed part: the largest summed Delay of its tracks
PartDuration(part) == MaxOf({TotalDelay(part.tracks[t]) : t \in 1..Len(part.tracks)})

\* C9: tempo map shape. The timeline has one tempo breakpoint per part, in part
\* order; the first is at ticks 0, ticks never decrease, and breakpoint k is at the
\* sum of the durations of the parts before it.
C9_TempoMap ==
    (co_pc = "done" /\ co_result.has_midi) =>
        LET tempos == co_result.midi_json.tempos
            parts == co_result.parts
        IN  /\ Len(tempos) = Len(parts)
            /\ \A k \in 1..Len(tempos) :
                  /\ tempos[k].bpm = Rat(parts[k].bpm, 30)
                  /\ tempos[k].ticks = SumSeq([j \in 1..(k - 1) |-> PartDuration(parts[j])])
            /\ Len(tempos) > 0 => tempos[1].ticks = 0
            /\ \A k \in 1..(Len(tempos) - 1) : tempos[k].ticks <= tempos[k + 1].ticks

\* C9 witness: a timeline of two parts of different tempo was built, the second
\* breakpoint after the first part's ticks
C9_Witness ==
    /\ co_pc = "done" /\ co_result.has_midi
    /\ Len(co_result.midi_json.tempos) = 2
    /\ co_result.midi_json.tempos[2].ticks > 0
    /\ co_result.midi_json.tempos[1].bpm # co_result.midi_json.tempos[2].bpm


\* what a step that loads a level does, level_data being the compiled file
LoadCommits(level_data) ==
    /\ ~level_data.thrown
    /\ Len(level_data.rows) > 0
    /\ ld_load_calls' = ld_load_calls + 1
    /\ game_data' = GameStateManager_load_level(level_data)

\* C7: a failed level load leaves the previous level untouched. A step of the load
\* handler invokes load_level or changes GameData only when it is the step that
\* resumes after the compile of the chosen file has returned, without throwing and
\* with at least one row; every other step of the handler (cancel, no file, read
\* error, compile throws, zero rows) leaves GameData and the load_level count as
\* they were.
C7_FailedLoadLeavesLevel ==
    [][((ld_pc' # ld_pc \/ ld_load_calls' # ld_load_calls)
        /\ (game_data' # game_data \/ ld_load_calls' # ld_load_calls))
          => (ld_pc = "reading" /\ LoadCommits(parse_and_combine_musics(ld_file)))]_vars

\* C7 witness: after a level was loaded from a file, a later load whose compile threw
\* or gave no rows has ended and the loaded level is still there
C7_Witness ==
    /\ ld_pc = "idle" /\ ld_last \in {"threw", "no rows"} /\ ld_load_calls = 1
    /\ Len(game_data.musics_metadata) > 0

\* the calls since the last reset came with non-decreasing times
NonDecreasing(scans) ==
    \A i, j \in 1..Len(scans) : i < j => scans[i].time <= scans[j].time

Elements(s) == {s[k] : k \in 1..Len(s)}

\* C10: playback scans never re-trigger. While the current_time values of the
\* update_midi_playback calls are non-decreasing (equal times included), no note
\* id is returned by two calls and no note is played by two calls, although the
\* consumed-id set is cleaned up at the end of every call.
C10_NoRetrigger ==
    NonDecreasing(pb_scans) =>
        \A i, j \in 1..Len(pb_scans) : i < j =>
            /\ Elements(pb_scans[i].ids) \cap Elements(pb_scans[j].ids) = {}
            /\ Elements(pb_scans[i].sounded) \cap Elements(pb_scans[j].sounded) = {}

\* C10 witness: a call returned an id and played its note, the next call came at
\* the same time, a later call cleaned that id out of the consumed set, and one
\* more call followed
C10_Witness ==
    /\ NonDecreasing(pb_scans)
    /\ \E i, k \in 1..Len(pb_scans) :
          /\ i + 1 < k /\ k < Len(pb_scans)
          /\ pb_scans[i].time = pb_scans[i + 1].time
          /\ pb_scans[i].sounded # <<>>
          /\ \E id \in Elements(pb_scans[i].ids) :
                /\ is_stale(id, pb_scans[k].time)
                /\ id \notin pb_played_notes

\* the notes of the loaded MIDI data that carry a given id
NotesWithId(midi_data, id) ==
    {n \in UNION {Elements(midi_data.tracks[t]) : t \in 1..Len(midi_data.tracks)} :
        \E t \in 1..Len(midi_data.tracks) :
            n \in Elements(midi_data.tracks[t]) /\ note_id(n, t - 1) = id}

\* C11: consumed-id pruning horizon. After update_midi_playback(T) has returned,
\* every id left in played_notes belongs to a note whose time is at least
\* T - 10 seconds.
C11_PruningHorizon ==
    (pb_scans # <<>>) =>
        \A id \in pb_played_notes :
            \A n \in NotesWithId(pb_midi_data, id) :
                n.time >= pb_scans[Len(pb_scans)].time - 100000

\* the positions whose is_consumed differs between two indicator arrays
FlagsChanged(before, after) ==
    {i \in 1..Len(before) : before[i].is_consumed # after[i].is_consumed}

\* the subsequence of the unconsumed indicators, by position
RECURSIVE UnconsumedFrom(_, _)
UnconsumedFrom(indicators, i) ==
    IF i > Len(indicators) THEN <<>>
    ELSE IF indicators[i].is_consumed THEN UnconsumedFrom(indicators, i + 1)
         ELSE <<indicators[i]>> \o UnconsumedFrom(indicators, i + 1)

Carriers(indicators, id) == {i \in 1..Len(indicators) : indicators[i].note_id = id}

C12_Call(c) ==
    /\ Len(c.after) = Len(c.before)
    /\ \A i \in 1..Len(c.before) :
          /\ c.after[i].note_id = c.before[i].note_id
          /\ c.before[i].is_consumed => c.after[i].is_consumed
    /\ c.op = "consume" =>
          /\ Cardinality(FlagsChanged(c.before, c.after)) <= 1
          /\ c.ret <=> (FlagsChanged(c.before, c.after) # {})
          /\ \A i \in FlagsChanged(c.before, c.after) :
                /\ c.before[i].note_id = c.id
                /\ \A j \in 1..(i - 1) :
                      ~(c.before[j].note_id = c.id /\ ~c.before[j].is_consumed)
    /\ c.op = "active" =>
          /\ c.after = c.before
          /\ c.active = UnconsumedFrom(c.before, 1)

\* C12: indicator consumption is monotonic and idempotent. is_consumed only goes
\* from false to true; consume_indicator_by_note_id marks at most one indicator,
\* the first unconsumed one with the id, and returns true exactly when it marked
\* one; with a single indicator carrying the id a second call with the same id
\* returns false and changes nothing; get_active_indicators returns exactly the
\* unconsumed indicators.
C12_ConsumptionMonotonic ==
    /\ \A k \in 1..Len(ni_log) : C12_Call(ni_log[k])
    /\ \A k \in 2..Len(ni_log) :
          (/\ ni_log[k].op = "consume" /\ ni_log[k - 1].op = "consume"
           /\ ni_log[k].id = ni_log[k - 1].id
           /\ Cardinality(Carriers(ni_log[k].before, ni_log[k].id)) = 1)
             => (~ni_log[k].ret /\ ni_log[k].after = ni_log[k].before)

\* C12 witness: an id carried by two indicators was consumed once (the first of
\* them marked, the second still active), the same id was asked again and marked
\* the second, and get_active_indicators then returned a non-empty strict part
C12_Witness ==
    /\ Len(ni_log) = 3
    /\ ni_log[1].op = "consume" /\ ni_log[1].ret
    /\ Cardinality(Carriers(ni_log[1].before, ni_log[1].id)) = 2
    /\ ni_log[2].op = "consume" /\ ni_log[2].id = ni_log[1].id /\ ni_log[2].ret
    /\ ni_log[3].op = "active"
    /\ ni_log[3].active # <<>> /\ Len(ni_log[3].active) < Len(ni_indicators)

RECURSIVE LetterSum(_, _, _)
LetterSum(str, table, i) ==
    IF i = 0 THEN 0
    ELSE LetterSum(str, table, i - 1)
         + (IF str[i] \in DOMAIN table THEN table[str[i]] ELSE 0)

\* a component of the form digit<content>, content not empty
GroupForm(c) ==
    Len(c) >= 4 /\ c[1] \in Digits /\ c[2] = "<" /\ c[Len(c)] = ">"

C14_Expected(c) ==
    IF GroupForm(c)
    THEN [duration |-> LetterSum(SubSeq(c, 3, Len(c) - 1), DURATION_MAP, Len(c) - 3),
          original_type |-> IF c[1] = "5" THEN "DOUBLE" ELSE "SINGLE"]
    ELSE IF c # <<>> /\ \A i \in 1..Len(c) : c[i] \in DOMAIN REST_MAP
    THEN [duration |-> LetterSum(c, REST_MAP, Len(c)), original_type |-> "EMPTY"]
    ELSE [duration |-> LetterSum(c, DURATION_MAP, Len(c)), original_type |-> "SINGLE"]

\* C14: layout component classification. A component of the form digit<content>
\* has the sum of the duration letters of content as duration and is DOUBLE
\* exactly when the digit is 5, SINGLE otherwise ("5<c.N>" is DOUBLE with
\* duration 4); a non-empty component of rest letters only is EMPTY with the sum
\* of its rest letters; anything else is SINGLE with the sum of its duration
\* letters.  The forms are read on the trimmed component.
C14_Classification ==
    (ly_pc = "done") => ly_parsed = C14_Expected(Trim(ly_component))

RestLetters == {"Q", "R", "S", "T", "U", "V", "W", "X", "Y"}

\* C15: is_only_rest_letters is false for the empty string, true for every
\* non-empty string of rest letters Q..Y only, and false for every string with
\* at least one character that is not a rest letter.
C15_OnlyRestLetters ==
    (ly_pc = "done") =>
        /\ ly_component = <<>> => ~ly_only_rest
        /\ (ly_component # <<>> /\ \A i \in 1..Len(ly_component) : ly_component[i] \in RestLetters)
              => ly_only_rest
        /\ (\E i \in 1..Len(ly_component) : ly_component[i] \notin RestLetters)
              => ~ly_only_rest

\* C15 witness: "QQ" was found to be rests only
C15_Witness ==
    ly_pc = "done" /\ ly_component = <<"Q", "Q">> /\ ly_only_rest

\* the seconds of the whole tempo segments k..k+1 that end strictly before ticks
RECURSIVE SegmentsBefore(_, _, _, _)
SegmentsBefore(ticks, tempos, ppq, k) ==
    IF k + 1 > Len(tempos) \/ tempos[k + 1].ticks >= ticks THEN <<0, 1>>
    ELSE RatAdd(RatMul(Rat(tempos[k + 1].ticks - tempos[k].ticks, ppq),
                       RatDiv(RatInt(60), tempos[k].bpm)),
                SegmentsBefore(ticks, tempos, ppq, k + 1))

\* the last breakpoint strictly before ticks (0 when there is none)
LastBefore(ticks, tempos) ==
    IF \E k \in 1..Len(tempos) : tempos[k].ticks < ticks
    THEN CHOOSE k \in 1..Len(tempos) :
            /\ tempos[k].ticks < ticks
            /\ \A j \in (k + 1)..Len(tempos) : tempos[j].ticks >= ticks
    ELSE 0

IntegratedSeconds(ticks, tempos, ppq, last) ==
    IF last = 0 THEN <<0, 1>>
    ELSE RatAdd(SegmentsBefore(ticks, tempos, ppq, 1),
                RatMul(Rat(ticks - tempos[last].ticks, ppq),
                       RatDiv(RatInt(60), tempos[last].bpm)))

\* C16: tick-to-time conversion. ticks_to_seconds(t) is the sum over the tempo
\* segments strictly before t of (segment ticks / ppq) * (60 / bpm of the
\* segment) plus (remaining ticks / ppq) * (60 / bpm of the last breakpoint
\* strictly before t); with breakpoints [(0, 120)] and ppq 960 tick 960 is 0.5 s
\* exactly; with positive bpm the result is non-decreasing in t.
C16_TicksToSeconds ==
    tt_last.called =>
        /\ tt_last.seconds = IntegratedSeconds(tt_last.ticks, tt_tempos, 960,
                                               LastBefore(tt_last.ticks, tt_tempos))
        /\ (Len(tt_tempos) = 1 /\ tt_tempos[1].bpm = <<120, 1>> /\ tt_last.ticks = 960)
              => tt_last.seconds = <<1, 2>>
        /\ (tt_prev.called /\ tt_prev.ticks <= tt_last.ticks)
              => RatLe(tt_prev.seconds, tt_last.seconds)

\* C16 witness: on a map of three breakpoints with three different tempos a
\* tick inside the first segment and then a tick after the last breakpoint were
\* converted, the second to a later time
C16_Witness ==
    /\ tt_last.called /\ tt_prev.called
    /\ Len(tt_tempos) = 3
    /\ tt_tempos[1].ticks < tt_tempos[2].ticks /\ tt_tempos[2].ticks < tt_tempos[3].ticks
    /\ tt_tempos[1].bpm # tt_tempos[2].bpm /\ tt_tempos[2].bpm # tt_tempos[3].bpm
    /\ tt_prev.ticks > 0 /\ tt_prev.ticks < tt_tempos[2].ticks
    /\ tt_last.ticks > tt_tempos[3].ticks
    /\ RatLt(tt_prev.seconds, tt_last.seconds)

\* the iteration-by-iteration parser ends as parse_track does
PtAgrees ==
    /\ pt_status = "returned" =>
          parse_track(pt_score, 120, 15) = [thrown |-> FALSE, err |-> "", messages |-> pt_messages]
    /\ pt_status = "thrown" =>
          (parse_track(pt_score, 120, 15).thrown /\ parse_track(pt_score, 120, 15).err = pt_err)

PtSkipped ==
    /\ pt_status = "scanning"
    /\ pt_mode = pt_prev.mode
    /\ pt_notes = pt_prev.notes
    /\ pt_messages = pt_prev.messages

PtEnded ==
    pt_status \in {"returned", "thrown"} /\ ~pt_prev.stepped

\* C18: incomplete scores are fatal. parse_track returns a track only if the
\* parser is in mode 0 or 5 after the last character; a score that ends inside
\* parentheses (mode 1 or 2), after ) without [ (3), inside [ (4) or after a
\* length code without ] (6) raises "Incomplete score string" and returns no
\* messages.
C18_IncompleteIsFatal ==
    /\ pt_status = "returned" => pt_mode \in {0, 5}
    /\ (PtEnded /\ pt_mode \in {1, 2, 3, 4, 6}) =>
          /\ pt_status = "thrown" /\ pt_err = "Incomplete score string"
          /\ parse_track(pt_score, 120, 15) = PtThrow("Incomplete score string")
    /\ (PtEnded /\ pt_mode \in {0, 5}) =>
          /\ pt_status = "returned"
          /\ parse_track(pt_score, 120, 15) =
                [thrown |-> FALSE, err |-> "", messages |-> pt_messages]

\* C18 witness: a score ended after its length code, with messages already
\* pushed, and the call threw
C18_Witness ==
    /\ PtEnded /\ pt_mode = 6
    /\ pt_messages # <<>>
    /\ pt_status = "thrown" /\ pt_err = "Incomplete score string"

OnlyLetters(str, table) == \A i \in 1..Len(str) : str[i] \in DOMAIN table

C19_Capped(result, str, base_beats, table) ==
    /\ ~result.thrown => result.value <= 16777215
    /\ OnlyLetters(str, table) =>
          IF LetterSum(str, table, Len(str)) * base_beats > 16777215
          THEN result.thrown
          ELSE ~result.thrown /\ result.value = LetterSum(str, table, Len(str)) * base_beats

\* C19: tick overflow cap. get_length and get_rest never return more than
\* 0xFFFFFF; for a token of duration letters only (rest letters only) whose sum
\* times base_beats exceeds 0xFFFFFF they raise "Length overflow", and otherwise
\* they return exactly that product.
C19_TickOverflowCap ==
    (gl_pc = "done") =>
        /\ C19_Capped(gl_length, gl_token, gl_base_beats, DURATION_MAP)
        /\ C19_Capped(gl_rest, gl_token, gl_base_beats, REST_MAP)

\* C19 witness: a token of duration letters one letter past the cap made
\* get_length throw, while get_rest returned 0 for it
C19_Witness ==
    /\ gl_pc = "done"
    /\ OnlyLetters(gl_token, DURATION_MAP)
    /\ gl_length.thrown
    /\ (LetterSum(gl_token, DURATION_MAP, Len(gl_token)) - 256) * gl_base_beats <= 16777215
    /\ ~gl_rest.thrown /\ gl_rest.value = 0

OperatorKinds(notes) == {k \in {2, 3, 4, 5, 6} : \E i \in 1..Len(notes) : notes[i] = k}

OrnamentMarkers(notes) == {i \in 1..Len(notes) : notes[i] = 6}

WellFormedOrnament(notes) ==
    Len(notes) = 3 /\ notes[2] = 6 /\ notes[1] >= 20 /\ notes[3] >= 20

\* C20: operator validation. process_notes raises the fatal "Problem with
\* operators" error when more than one non-divider operator kind (@, %, !, ^)
\* or more than one ornament marker is present; a list with at most one
\* operator kind and at most one ornament marker passes the validation (and,
\* unless it is a malformed ornament, is processed without error); a rejected
\* chord emits no message.
C20_OperatorValidation ==
    (pn_pc = "done") =>
        /\ (Cardinality(OperatorKinds(pn_notes) \ {2}) > 1
            \/ Cardinality(OrnamentMarkers(pn_notes)) > 1)
              => (pn_result.thrown /\ pn_result.err = "Problem with operators")
        /\ (Cardinality(OperatorKinds(pn_notes)) <= 1
            /\ Cardinality(OrnamentMarkers(pn_notes)) <= 1)
              => /\ pn_result.err # "Problem with operators"
                 /\ (6 \notin OperatorKinds(pn_notes) \/ WellFormedOrnament(pn_notes))
                       => ~pn_result.thrown
        /\ (pn_result.thrown /\ pn_result.err = "Problem with operators")
              => pn_result.msgs = <<>>

\* C20 witness: a chord with pitches, an @ and a % was rejected without a message
C20_Witness ==
    /\ pn_pc = "done"
    /\ {3, 4} \subseteq OperatorKinds(pn_notes)
    /\ \E i \in 1..Len(pn_notes) : pn_notes[i] >= 20
    /\ pn_result.thrown /\ pn_result.err = "Problem with operators"
    /\ pn_result.msgs = <<>>

\* the parsed components of the primary score
PmPrimary == parse_score(pm_scores[1])

\* C21 as stated: every row of process_music has a height_multiplier that is an
\* integer >= 1, whatever its kind
C21_AsStated ==
    pm_pc = "done" =>
        \A i \in 1..Len(pm_rows) :
            /\ pm_rows[i].height_multiplier[2] = 1
            /\ pm_rows[i].height_multiplier[1] >= 1

\* C21: every row of process_music has a positive height_multiplier: 1 for a
\* DOUBLE row, at least 1 for a SINGLE row, and duration / (32 * base_beats)
\* for an EMPTY row, which is a fraction and may be less than 1
C21_HeightMultiplier ==
    pm_pc = "done" =>
        /\ Len(pm_rows) = Len(PmPrimary)
        /\ \A i \in 1..Len(pm_rows) :
              LET h == pm_rows[i].height_multiplier
              IN  /\ h[1] > 0 /\ h[2] > 0
                  /\ pm_rows[i].type = "DOUBLE" => h = <<1, 1>>
                  /\ pm_rows[i].type = "SINGLE" => h[1] >= h[2]
                  /\ pm_rows[i].type = "EMPTY" =>
                        h[1] * 32 * pm_base_beats[1] = PmPrimary[i].duration * pm_base_beats[2] * h[2]

\* a section with an EMPTY row lower than 1 and a SINGLE row of fractional height
C21_Witness ==
    /\ pm_pc = "done"
    /\ \E i \in 1..Len(pm_rows) :
          /\ pm_rows[i].type = "EMPTY"
          /\ pm_rows[i].height_multiplier[1] < pm_rows[i].height_multiplier[2]
    /\ \E i \in 1..Len(pm_rows) :
          /\ pm_rows[i].type = "SINGLE"
          /\ pm_rows[i].height_multiplier[2] > 1

\* the walk of a song ends with the notes convert_to_midi_json gives its tracks
SgAgrees ==
    (sg_pc = "done" /\ sg_parts # <<>>) =>
        LET midi == convert_to_midi_json(sg_parsed)
        IN  /\ Len(midi.tracks) = Len(sg_tracks)
            /\ \A t \in 1..Len(sg_tracks) :
                  /\ Len(midi.tracks[t].notes) = Len(sg_tracks[t])
                  /\ \A j \in 1..Len(sg_tracks[t]) :
                        /\ midi.tracks[t].notes[j].midi = sg_tracks[t][j].midi
                        /\ midi.tracks[t].notes[j].ticks = sg_tracks[t][j].ticks
                        /\ midi.tracks[t].notes[j].duration_ticks = sg_tracks[t][j].duration_ticks

\* the track under the cursor has been walked to its end
SgAtEnd == sg_pc = "walking" /\ sg_walk.k > Len(SgMessages)

\* C22: every Note emitted while walking a parsed and aligned track has
\* duration_ticks >= 0, and at the end of every track no NoteOn is left open
C22_NoDanglingNotes ==
    /\ \A t \in 1..Len(sg_tracks) : \A j \in 1..Len(sg_tracks[t]) :
          sg_tracks[t][j].duration_ticks >= 0
    /\ SgAtEnd => DOMAIN sg_active_notes = {}

\* the track of a part as parse_track returned it
SgAuthored(p, t) == parse_track(sg_musics[p].scores.items[t], 1800, 15).messages

\* a track is walked to its end with a Note pushed, in a song that holds a track
\* left as parsed, a track shrunk with a pair silenced, a track extended with a
\* trailing Delay and a padding track
C22_Witness ==
    /\ SgAtEnd
    /\ sg_tracks[sg_walk.track] # <<>>
    /\ \E p \in 1..Len(sg_parts) : \E t \in 1..Len(sg_parsed[p].tracks) :
          /\ sg_parts[p].tracks[t] # SgAuthored(p, t)
          /\ Len(sg_parts[p].tracks[t]) = Len(SgAuthored(p, t))
          /\ \E k \in 1..Len(SgAuthored(p, t)) :
                SgAuthored(p, t)[k].type = 0 /\ sg_parts[p].tracks[t][k] = Ignore
    /\ \E p \in 1..Len(sg_parts) : \E t \in 1..Len(sg_parsed[p].tracks) :
          \E d \in 1..1000 : sg_parts[p].tracks[t] = Append(SgAuthored(p, t), Delay(d))
    /\ \E p \in 1..Len(sg_parts) : \E t \in 1..Len(sg_parsed[p].tracks) :
          sg_parts[p].tracks[t] = SgAuthored(p, t)
    /\ \E p \in 1..Len(sg_parts) : Len(sg_parsed[p].tracks) < Len(sg_parts[p].tracks)

\* the characters parse_track tests by name (703-773)
StructuralChars ==
    {".", "~", "$", "@", "%", "!", "^", "&", "(", ")", "[", "]", ",", ";"}

\* the modes in which a structural character is accepted, as C23 lists them
PermittedModes(char) ==
    CASE char = "(" -> {0}
      [] char \in {".", "~", "$", "@", "%", "!", "^", "&", ")"} -> {2}
      [] char = "[" -> {3}
      [] char = "]" -> {6}
      [] char \in {",", ";"} -> {0, 5}

\* the last iteration read a token (788-857): the token it read
PtToken == SubSeq(pt_score, pt_prev.i, TokenEnd(pt_score, pt_prev.i))

PtReadToken ==
    /\ pt_prev.stepped
    /\ pt_prev.char \notin StructuralChars \cup {" "}
    /\ ~IgnoredOutsideUnit(pt_prev.char, pt_prev.mode)

\* the token is a length code: not a note name, letters H..P only
PtLengthCode ==
    /\ PtReadToken
    /\ get_note_number(Join(PtToken)) = 0
    /\ ~get_length(PtToken, 15).thrown
    /\ get_length(PtToken, 15).value # 0

\* C23: parse_track accepts ( only in mode 0; . ) and the operator glyphs
\* ~ $ @ % ! ^ & only in mode 2; [ only in mode 3; a length code only in mode 4;
\* ] only in mode 6; , and ; only in modes 0 and 5. In every other mode the
\* iteration throws "Unexpected <char>" at that character, or "Unexpected
\* token: <token>" for the length code, and changes neither mode nor messages.
C23_ModeMachine ==
    /\ (pt_prev.stepped /\ pt_prev.char \in StructuralChars) =>
          IF pt_prev.mode \in PermittedModes(pt_prev.char)
          THEN pt_status = "scanning" /\ pt_i = pt_prev.i + 1
          ELSE /\ pt_status = "thrown" /\ pt_err = "Unexpected"
               /\ pt_i = pt_prev.i /\ pt_score[pt_i] = pt_prev.char
               /\ pt_mode = pt_prev.mode /\ pt_messages = pt_prev.messages
    /\ PtLengthCode =>
          IF pt_prev.mode = 4
          THEN pt_status = "scanning" => pt_mode = 6
          ELSE /\ pt_status = "thrown" /\ pt_err = "Unexpected token"
               /\ SubSeq(pt_score, pt_prev.i, pt_i) = PtToken
               /\ pt_mode = pt_prev.mode /\ pt_messages = pt_prev.messages

\* an operator glyph met right after ( is refused
C23_Witness ==
    /\ pt_prev.stepped
    /\ pt_prev.char \in {"@", "%", "!", "$", "&"}
    /\ pt_prev.mode = 1
    /\ pt_status = "thrown"

\* the pending list holds dividers (2) and pitches only
OnlyDividers(notes) == \A k \in {3, 4, 5, 6} : CountOf(notes, k) = 0

RECURSIVE GroupsOf(_, _)
\* the pitches between the dividers, group by group; cur is the group being read
GroupsOf(notes, cur) ==
    IF notes = <<>> THEN <<cur>>
    ELSE IF Head(notes) = 2 THEN <<cur>> \o GroupsOf(Tail(notes), <<>>)
    ELSE GroupsOf(Tail(notes), Append(cur, Head(notes)))

\* the j-th of n exact shares of length: what the j-th call divide(length, n)
\* of a fresh divider returns
ExactShare(length, n, j) == (j * length) \div n - ((j - 1) * length) \div n

RECURSIVE GroupMessages(_, _, _)
\* groups j..Len(groups), each as NoteOn of its pitches, one Delay, NoteOff of its pitches
GroupMessages(groups, length, j) ==
    IF j > Len(groups) THEN <<>>
    ELSE OnAll(groups[j]) \o <<Delay(ExactShare(length, Len(groups), j))>> \o OffAll(groups[j])
         \o GroupMessages(groups, length, j + 1)

\* C24: for pending notes with k >= 0 dividers and no other operator,
\* process_notes emits k+1 groups left to right, each as NoteOn for all its
\* pitches, one Delay of its exact share of length/(k+1), NoteOff for all its
\* pitches in the same order; a group without pitches emits its Delay alone.
C24_GroupOrder ==
    (pn_pc = "done" /\ OnlyDividers(pn_notes)) =>
        /\ Len(GroupsOf(pn_notes, <<>>)) = CountOf(pn_notes, 2) + 1
        /\ pn_result = PnOk(GroupMessages(GroupsOf(pn_notes, <<>>), pn_length, 1))

\* a chord of three groups, one of them without pitches and one of two pitches,
\* whose length is not a multiple of 3
C24_Witness ==
    /\ pn_pc = "done" /\ OnlyDividers(pn_notes)
    /\ CountOf(pn_notes, 2) = 2
    /\ pn_length % 3 # 0
    /\ \E j \in 1..3 : GroupsOf(pn_notes, <<>>)[j] = <<>>
    /\ \E j \in 1..3 : Len(GroupsOf(pn_notes, <<>>)[j]) = 2

\* the pending list holds pitches and markers of the one arpeggio kind marker
OneArpeggioKind(notes, marker) ==
    /\ CountOf(notes, marker) >= 1
    /\ \A k \in {2, 3, 4, 5, 6} \ {marker} : CountOf(notes, k) = 0

\* the fraction num/den of the remaining length a marker carves, as C25 gives it
\* for n markers of the kind
ArpeggioSlice(marker, n) ==
    CASE marker = 3 -> IF n = 1 THEN <<1, 10>> ELSE <<1, 10 * (n - 1)>>
      [] marker = 4 -> <<3, 10 * n>>
      [] marker = 5 -> <<3, 20 * n>>

RECURSIVE ArpeggioAt(_, _, _, _)
\* before entry idx of the list: the length remaining and the carry of the
\* exact divider, which returns floor((carry + a) / b) and keeps the rest
ArpeggioAt(notes, marker, length, idx) ==
    IF idx = 1 THEN [remaining |-> length, carry |-> 0]
    ELSE LET before == ArpeggioAt(notes, marker, length, idx - 1)
             slice == ArpeggioSlice(marker, CountOf(notes, marker))
             total == before.carry + slice[1] * before.remaining
         IN  IF notes[idx - 1] = marker
             THEN [remaining |-> before.remaining - total \div slice[2],
                   carry |-> total % slice[2]]
             ELSE before

\* the messages C25 describes: a NoteOn or a Delay per entry, the final Delay,
\* the NoteOffs
ArpeggioExpected(notes, marker, length) ==
    LET slice == ArpeggioSlice(marker, CountOf(notes, marker))
    IN  [idx \in 1..Len(notes) |->
            IF notes[idx] = marker
            THEN Delay((ArpeggioAt(notes, marker, length, idx).carry
                        + slice[1] * ArpeggioAt(notes, marker, length, idx).remaining)
                       \div slice[2])
            ELSE NoteOn(notes[idx])]
        \o <<Delay(ArpeggioAt(notes, marker, length, Len(notes) + 1).remaining)>>
        \o OffAll(Without(notes, marker))

\* C25: for a chord with n >= 1 markers of one arpeggio kind, each marker emits
\* one Delay taken by the exact divider from the length remaining at that marker
\* (remaining/10 for one @, remaining/(10(n-1)) for several @, 3*remaining/(10n)
\* for %, 3*remaining/(20n) for !) and lowers the remaining length by it; every
\* pitch's NoteOn is emitted at its place in the list, and the NoteOffs follow a
\* final Delay of the remaining length.
C25_Arpeggio ==
    \A marker \in {3, 4, 5} :
        (pn_pc = "done" /\ OneArpeggioKind(pn_notes, marker)) =>
            pn_result = PnOk(ArpeggioExpected(pn_notes, marker, pn_length))

\* a chord with three @ whose markers carve different Delays
C25_Witness ==
    /\ pn_pc = "done" /\ OneArpeggioKind(pn_notes, 3)
    /\ CountOf(pn_notes, 3) = 3
    /\ \E i, j \in 1..Len(pn_notes) :
          /\ pn_notes[i] = 3 /\ pn_notes[j] = 3
          /\ pn_result.msgs[i].value # pn_result.msgs[j].value

\* the pending list is [pitchA, ^, pitchB] with both pitches >= 20
OrnamentShape(notes) ==
    Len(notes) = 3 /\ notes[2] = 6 /\ notes[1] >= 20 /\ notes[3] >= 20

\* the ticks the exact divider has given out after j steps of bpm*32/720
OrnamentTicks(bpm, j) == (j * bpm * 32) \div 720

\* the number of triples: the first step that reaches the remaining length is
\* the first j with OrnamentTicks(bpm, j) >= length
OrnamentSteps(length, bpm) == (720 * length + bpm * 32 - 1) \div (bpm * 32)

\* the triples C26 describes: pitchA, pitchB, pitchA, ... each held for one step,
\* the last for what remains of length
OrnamentExpected(notes, length, bpm) ==
    [m \in 1..(3 * OrnamentSteps(length, bpm)) |->
        LET j == (m + 2) \div 3
            p == IF j % 2 = 1 THEN notes[1] ELSE notes[3]
        IN  IF m % 3 = 1 THEN NoteOn(p)
            ELSE IF m % 3 = 0 THEN NoteOff(p)
            ELSE IF j = OrnamentSteps(length, bpm)
            THEN Delay(length - OrnamentTicks(bpm, j - 1))
            ELSE Delay(OrnamentTicks(bpm, j) - OrnamentTicks(bpm, j - 1))]

\* C26: process_notes rejects an ornament unless the pending list is exactly
\* [pitchA, ^, pitchB] with both pitches >= 20; otherwise it returns, for every
\* bpm >= 1 and length >= 1, finitely many NoteOn/Delay/NoteOff triples that
\* alternate pitchA, pitchB, pitchA, ..., each Delay being the exact-divider step
\* bpm*32/720, up to the first step that is >= the remaining length, where the
\* remaining length is the last Delay.
C26_Ornament ==
    (pn_pc = "done" /\ CountOf(pn_notes, 6) >= 1) =>
        IF OrnamentShape(pn_notes)
        THEN pn_result = PnOk(OrnamentExpected(pn_notes, pn_length, pn_bpm))
        ELSE pn_result.thrown /\ pn_result.msgs = <<>>

\* an ornament at the slowest bpm whose steps are mostly of 0 ticks has been
\* played to its end over more than a hundred triples
C26_Witness ==
    /\ pn_pc = "done" /\ OrnamentShape(pn_notes)
    /\ pn_bpm = 1
    /\ ~pn_result.thrown
    /\ Len(pn_result.msgs) > 300
    /\ pn_result.msgs[2] = Delay(0)

\* the pitches of the table: every value of NOTE_TO_MIDI but the pseudo-pitch 1
TablePitches == {NOTE_TO_MIDI[n] : n \in DOMAIN NOTE_TO_MIDI} \ {1}

\* the last iteration read the token mute or empty
PtReadMute == PtReadToken /\ Join(PtToken) \in {"mute", "empty"}

\* C27: in every track parse_track returns, every NoteOn/NoteOff value is a
\* pitch-table value in 21..108 (never the pseudo-pitch 1, never a marker 2..6);
\* a mute token moves the parser as a note does (mode 0 to 3, mode 1 to 2)
\* without joining the pending notes, and (mute)[P] compiles to one Delay.
C27_OnlyTablePitches ==
    /\ pt_status = "returned" =>
          \A k \in 1..Len(pt_messages) :
              pt_messages[k].type \in {0, 1} =>
                  pt_messages[k].value \in TablePitches \cap 21..108
    /\ (PtReadMute /\ pt_prev.mode \in {0, 1}) =>
          /\ pt_status = "scanning"
          /\ pt_mode = (IF pt_prev.mode = 0 THEN 3 ELSE 2)
          /\ pt_notes = pt_prev.notes /\ pt_messages = pt_prev.messages
    /\ (pt_status = "returned" /\ pt_score = ScoreMute) => pt_messages = <<Delay(15)>>

\* a digit immediately followed by < stands at index i
GroupStartsAt(score, i) ==
    i + 1 <= Len(score) /\ score[i] \in Digits /\ score[i + 1] = "<"

\* how many of the characters j..k of score are c
CountBetween(score, j, k, c) == Cardinality({n \in j..k : score[n] = c})

\* the index of the > that matches the < at index j: the first index from which
\* back to j as many > as < are met; the end of the score when there is none
GroupEnd(score, j) ==
    LET closing == {k \in j..Len(score) :
                       CountBetween(score, j, k, "<") = CountBetween(score, j, k, ">")}
    IN  IF closing = {} THEN Len(score)
        ELSE CHOOSE k \in closing : \A o \in closing : k <= o

\* a piece of text as a component: trimmed, dropped when nothing is left
Piece(text) == IF Trim(text) = <<>> THEN <<>> ELSE <<Trim(text)>>

RECURSIVE Components(_, _, _)
\* the components of score from index i on, text being the piece under way:
\* a group is one component whatever it holds, a separator outside a group
\* ends the piece
Components(score, i, text) ==
    IF i > Len(score) THEN Piece(text)
    ELSE IF GroupStartsAt(score, i)
    THEN Piece(text) \o <<SubSeq(score, i, GroupEnd(score, i + 1))>>
         \o Components(score, GroupEnd(score, i + 1) + 1, <<>>)
    ELSE IF score[i] \in {",", ";"}
    THEN Piece(text) \o Components(score, i + 1, <<>>)
    ELSE Components(score, i + 1, Append(text, score[i]))

\* C28: split_score splits on , and ; outside digit-prefixed angle groups only;
\* a digit immediately followed by < starts a group taken whole as one
\* component up to its depth-matched >, separators inside it included; the text
\* before the digit is a component of its own, empty pieces are dropped, and
\* the empty score gives no component.
C28_Splitting ==
    sp_pc = "done" =>
        /\ sp_components = Components(sp_score, 1, <<>>)
        /\ sp_score = <<>> => sp_components = <<>>
        /\ \A k \in 1..Len(sp_components) : sp_components[k] # <<>>

\* a group with a separator and a nested pair inside, text before it and a
\* component after it
C28_Witness ==
    /\ sp_pc = "done"
    /\ Len(sp_components) >= 2
    /\ \E k \in 1..Len(sp_components) :
          /\ sp_components[k][1] \in Digits
          /\ CountBetween(sp_components[k], 1, Len(sp_components[k]), "<") = 2
          /\ CountBetween(sp_components[k], 1, Len(sp_components[k]), ",") = 1

\* the window [start, end) of component i of a parsed score, in ticks
WindowOf(parsed, i) ==
    LET before == SumSeq([k \in 1..(i - 1) |-> parsed[k].duration])
    IN  [start |-> before, end |-> before + parsed[i].duration]

\* some component of some secondary score that is no rest has a window that
\* overlaps the window of primary component i
SecondaryNoteOver(i) ==
    \E s \in 2..Len(pm_scores) :
        LET secondary == parse_score(pm_scores[s])
        IN  \E j \in 1..Len(secondary) :
               /\ secondary[j].original_type # "EMPTY"
               /\ WindowOf(PmPrimary, i).start < WindowOf(secondary, j).end
               /\ WindowOf(secondary, j).start < WindowOf(PmPrimary, i).end

\* max(1, duration / unit_divisor) as a fraction, unit_divisor = 32 * base_beats
TileHeight(duration) ==
    IF duration * pm_base_beats[2] <= 32 * pm_base_beats[1] THEN <<1, 1>>
    ELSE Rat(duration * pm_base_beats[2], 32 * pm_base_beats[1])

\* the row of a component that blending leaves alone
AuthoredRow(comp) ==
    IF comp.original_type = "DOUBLE" THEN [type |-> "DOUBLE", height_multiplier |-> <<1, 1>>]
    ELSE IF comp.original_type = "EMPTY"
    THEN [type |-> "EMPTY",
          height_multiplier |-> Rat(comp.duration * pm_base_beats[2], 32 * pm_base_beats[1])]
    ELSE [type |-> "SINGLE", height_multiplier |-> TileHeight(comp.duration)]

\* C29: process_music returns one row per component of the primary score, in
\* order; a primary rest becomes SINGLE of height max(1, duration/unit_divisor)
\* if and only if a non-rest component of some secondary score has a window
\* that overlaps its own (primary.start < secondary.end and secondary.start <
\* primary.end); every other row is the row of its component as parsed, so
\* notes, groups and sections of one score are not changed by blending.
C29_Blending ==
    pm_pc = "done" =>
        /\ Len(pm_rows) = Len(split_score(pm_scores[1]))
        /\ \A i \in 1..Len(pm_rows) :
              IF PmPrimary[i].original_type = "EMPTY" /\ SecondaryNoteOver(i)
              THEN pm_rows[i] = [type |-> "SINGLE",
                                 height_multiplier |-> TileHeight(PmPrimary[i].duration)]
              ELSE pm_rows[i] = AuthoredRow(PmPrimary[i])

\* a section whose first rest is blended by a secondary note and whose second
\* rest, which that note's window only touches, stays EMPTY
C29_Witness ==
    /\ pm_pc = "done"
    /\ Len(pm_rows) = 2 /\ Len(pm_scores) >= 2
    /\ PmPrimary[1].original_type = "EMPTY" /\ PmPrimary[2].original_type = "EMPTY"
    /\ pm_rows[1].type = "SINGLE" /\ pm_rows[2].type = "EMPTY"
    /\ \E s \in 2..Len(pm_scores) : \E j \in 1..Len(parse_score(pm_scores[s])) :
          /\ parse_score(pm_scores[s])[j].original_type # "EMPTY"
          /\ WindowOf(parse_score(pm_scores[s]), j).end = WindowOf(PmPrimary, 2).start

\* the parts have been aligned
SgAligned == sg_pc \in {"walking", "done"} /\ sg_parts # <<>>

\* track t of part p was added by the alignment
SgPadding(p, t) == t > Len(sg_parsed[p].tracks)

\* C30: after align_tracks_across_parts every part has as many tracks as the
\* part with the most; the authored tracks are unchanged; each added track is
\* the part's last authored track with every NoteOn/NoteOff turned into an
\* Ignore and every Delay kept, so it lasts as many ticks, opens no note and
\* gives the timeline no Note.
C30_Padding ==
    SgAligned =>
        /\ Len(sg_parts) = Len(sg_parsed)
        /\ \A p \in 1..Len(sg_parts) :
              LET authored == sg_parsed[p].tracks
                  last == authored[Len(authored)]
              IN  /\ \A q \in 1..Len(sg_parsed) : Len(sg_parts[p].tracks) >= Len(sg_parsed[q].tracks)
                  /\ \E q \in 1..Len(sg_parsed) : Len(sg_parts[p].tracks) = Len(sg_parsed[q].tracks)
                  /\ \A t \in 1..Len(authored) : sg_parts[p].tracks[t] = authored[t]
                  /\ \A t \in (Len(authored) + 1)..Len(sg_parts[p].tracks) :
                        LET added == sg_parts[p].tracks[t]
                        IN  /\ Len(added) = Len(last)
                            /\ \A k \in 1..Len(last) :
                                  IF last[k].type \in {0, 1} THEN added[k].type = 3
                                  ELSE added[k] = last[k]
                            /\ TotalDelay(added) = TotalDelay(last)
                            /\ process_track_messages(added, PartStartTicks(sg_parts, p)) = <<>>
        /\ (sg_pc = "walking" /\ SgPadding(sg_walk.part, sg_walk.track)) =>
              DOMAIN sg_active_notes = {}

\* a padding track that holds silenced notes and a Delay has been walked to its
\* end, in a part that follows a part with more tracks
C30_Witness ==
    /\ SgAtEnd
    /\ SgPadding(sg_walk.part, sg_walk.track)
    /\ sg_walk.part = 2
    /\ \E k \in 1..Len(SgMessages) : SgMessages[k].type = 3 /\ SgMessages[k].value >= 21
    /\ TotalDelay(SgMessages) > 0
    /\ sg_tracks[sg_walk.track] # <<>>

\* the call has returned without a throw for an amount the track can give
ShShrunk ==
    sh_pc = "done" /\ sh_amount <= TotalDelay(sh_messages)

\* the indices of the Delay entries of a track
DelaysOf(msgs) == {k \in 1..Len(msgs) : msgs[k].type = 2}

\* no Delay greater than 0 stands between indices a and b of the track
NoTimeBetween(msgs, a, b) == \A k \in (a + 1)..(b - 1) : ~(msgs[k].type = 2 /\ msgs[k].value > 0)

\* the message at index k was a NoteOn or NoteOff and is an Ignore now
Reclassified(k) == sh_messages[k].type \in {0, 1} /\ sh_result.msgs[k] = Ignore

\* C31: shrink_track(messages, amount) with 0 <= amount <= total Delay keeps the
\* number and order of messages, zeroes a suffix of the Delay entries, lowers at
\* most one further Delay in part and leaves every earlier Delay as it was;
\* afterwards no NoteOn is left with a NoteOff of its pitch after it and no
\* positive Delay between them, every such pair having become two Ignores, and
\* a message is reclassified only together with its partner across no positive
\* Delay.
C31_ShrinkFromEnd ==
    ShShrunk =>
        LET now == sh_result.msgs
        IN  /\ ~sh_result.thrown
            /\ Len(now) = Len(sh_messages)
            /\ \A k \in 1..Len(now) : now[k] = sh_messages[k] \/ Reclassified(k)
                                      \/ (sh_messages[k].type = 2 /\ now[k].type = 2)
            /\ \E cut \in DelaysOf(sh_messages) \cup {0} :
                  \A k \in DelaysOf(sh_messages) :
                      /\ k < cut => now[k] = sh_messages[k]
                      /\ k = cut => now[k].value \in 0..sh_messages[k].value
                      /\ k > cut => now[k] = Delay(0)
            /\ \A a, b \in 1..Len(now) :
                  ~(/\ a < b /\ now[a].type = 0 /\ now[b].type = 1
                    /\ now[a].value = now[b].value /\ NoTimeBetween(now, a, b))
            /\ \A a \in 1..Len(now) :
                  (Reclassified(a) /\ sh_messages[a].type = 0) =>
                      \E b \in (a + 1)..Len(now) :
                          /\ Reclassified(b) /\ sh_messages[b] = NoteOff(sh_messages[a].value)
                          /\ NoTimeBetween(now, a, b)
            /\ \A b \in 1..Len(now) :
                  (Reclassified(b) /\ sh_messages[b].type = 1) =>
                      \E a \in 1..(b - 1) :
                          /\ Reclassified(a) /\ sh_messages[a] = NoteOn(sh_messages[b].value)
                          /\ NoTimeBetween(now, a, b)

\* the example track shrunk by 70: its last Delay is zeroed and its note silenced,
\* its first Delay is lowered from 60 to 30 and its note kept
C31_Witness ==
    /\ ShShrunk /\ sh_messages = AlExample[2] /\ sh_amount = 70
    /\ sh_result.msgs =
          <<NoteOn(48), Delay(30), NoteOff(48), Ignore, Delay(0), Ignore>>

\* C32: shrink_track(messages, amount), amount >= 0, throws "Unable to shrink
\* track" exactly when amount exceeds the sum of the track's Delay values, and
\* otherwise leaves a track whose Delays sum to exactly amount less.
C32_UnableToShrink ==
    sh_pc = "done" =>
        /\ sh_result.thrown <=> sh_amount > TotalDelay(sh_messages)
        /\ ~sh_result.thrown =>
              TotalDelay(sh_result.msgs) = TotalDelay(sh_messages) - sh_amount

\* the example track of 100 ticks has refused an amount of 101
C32_Witness ==
    /\ sh_pc = "done" /\ sh_messages = AlExample[2] /\ sh_amount = 101
    /\ sh_result.thrown

\* the tempo-breakpoint tick of part p of the song under conversion
SgStart(p) == convert_to_midi_json(sg_parsed).tempos[p].ticks

\* the Note is inside part p
SgInside(note, p) ==
    /\ SgStart(p) <= note.ticks
    /\ note.ticks + note.duration_ticks
          <= SgStart(p) + calculate_part_duration(sg_parts[p].tracks)

\* C33: a Note pushed while part p of a song returned by parse_song is walked
\* starts at or after the tempo breakpoint of p and ends at or before that
\* breakpoint plus the duration of p; and when the walk enters a track of part
\* p, every Note the output track already holds ends at or before the
\* breakpoint of p.
C33_NotesInsidePart ==
    /\ [](\A t \in 1..Len(sg_tracks) :
             (sg_pc = "walking" /\ sg_walk.track = t /\ sg_walk.k = 1) =>
                 \A j \in 1..Len(sg_tracks[t]) :
                     sg_tracks[t][j].ticks + sg_tracks[t][j].duration_ticks
                         <= SgStart(sg_walk.part))
    /\ [][\A t \in 1..Len(sg_tracks) :
             (sg_pc = "walking" /\ Len(sg_tracks'[t]) > Len(sg_tracks[t])) =>
                 SgInside(sg_tracks'[t][Len(sg_tracks'[t])], sg_walk.part)]_vars

\* the second part of a song is under the cursor, its track holds a Note of the
\* first part and a Note of the second, and the second begins where the first
\* part ends
C33_Witness ==
    /\ sg_pc = "walking" /\ sg_walk.part = 2
    /\ \E i, j \in 1..Len(sg_tracks[sg_walk.track]) :
          LET notes == sg_tracks[sg_walk.track]
          IN  /\ i < j
              /\ notes[i].ticks < SgStart(2)
              /\ notes[j].ticks = SgStart(2)
              /\ notes[i].ticks + notes[i].duration_ticks = SgStart(2)

\* the indicators have been built from a timeline with tracks and a row array
BiBuilt ==
    /\ bi_pc \in {"playing", "rebuilt"}
    /\ bi_midi_json.loaded /\ bi_midi_json.tracks # <<>> /\ bi_rows # <<>>

\* the windows build_note_indicators gives the rows after the START row
BiWindows == LevelRowTimes(bi_rows, bi_metadata, Len(bi_rows) - 1)

\* the tps of level row k: that of the first section holding it, else the default
BiTpsOf(k) ==
    LET holding == {s \in 1..Len(bi_metadata) :
                       /\ bi_metadata[s].start_row_index <= k - 1
                       /\ k - 1 < bi_metadata[s].end_row_index}
    IN  IF holding = {} THEN RatInt(DEFAULT_TPS)
        ELSE bi_metadata[CHOOSE s \in holding : \A o \in holding : s <= o].tps

\* the Note object an indicator was built from
BiNoteOf(ind) == bi_midi_json.tracks[ind.ref[1] + 1][ind.ref[2] + 1]

\* C34: build_note_indicators gives row k >= 1 the half-open window of length
\* height_multiplier / tps that starts where the window of row k - 1 ends (at 0
\* for k = 1), so the windows are contiguous and disjoint; no Note has two
\* indicators; every indicator belongs to a Note of pitch 21..108 whose time is
\* in the window of the indicator's row, a row that is not the START row and
\* has a tile; the list is in non-decreasing time order and nothing is consumed.
C34_IndicatorPlacement ==
    BiBuilt =>
        LET w == BiWindows
        IN  /\ Len(w) = Len(bi_rows) - 1
            /\ \A k \in 1..Len(w) :
                  /\ w[k].row_index = k
                  /\ w[k].start_time = (IF k = 1 THEN <<0, 1>> ELSE w[k - 1].end_time)
                  /\ RatSub(w[k].end_time, w[k].start_time)
                        = RatMul(RatInt(10000),
                                 RatDiv(bi_rows[k + 1].height_multiplier, BiTpsOf(k)))
            /\ \A j, k \in 1..Len(w) : j < k => RatLe(w[j].end_time, w[k].start_time)
            /\ \A i, j \in 1..Len(bi_indicators) :
                  bi_indicators[i].ref = bi_indicators[j].ref => i = j
            /\ \A i \in 1..Len(bi_indicators) :
                  LET ind == bi_indicators[i]
                      row == bi_rows[ind.row_index + 1]
                  IN  /\ BiNoteOf(ind).midi \in 21..108
                      /\ ind.time = BiNoteOf(ind).time
                      /\ ind.row_index \in 1..Len(w)
                      /\ RatLe(w[ind.row_index].start_time, RatInt(ind.time))
                      /\ RatLt(RatInt(ind.time), w[ind.row_index].end_time)
                      /\ row.row_type # "START" /\ row.rectangles >= 1
                      /\ ~ind.is_consumed
            /\ \A i \in 1..(Len(bi_indicators) - 1) :
                  bi_indicators[i].time <= bi_indicators[i + 1].time

\* two rows of different sections carry an indicator each, the later Note of
\* the track first; a Note in the window of an empty row and a Note after the
\* last window have none
C34_Witness ==
    /\ BiBuilt /\ Len(bi_metadata) = 2
    /\ \E i, j \in 1..Len(bi_indicators) :
          /\ i < j
          /\ bi_indicators[i].row_index = 1 /\ bi_indicators[j].row_index = 2
          /\ bi_indicators[i].ref[1] = bi_indicators[j].ref[1]
          /\ bi_indicators[i].ref[2] > bi_indicators[j].ref[2]
    /\ \E t \in 1..Len(bi_midi_json.tracks) : \E n \in 1..Len(bi_midi_json.tracks[t]) :
          /\ bi_midi_json.tracks[t][n].time = 20000
          /\ \A i \in 1..Len(bi_indicators) : bi_indicators[i].ref # <<t - 1, n - 1>>

\* the id carries a pitch of 21..108
InRangeId(id) == id % 1000 \in 21..108

\* C35: the id update_midi_playback returns for a Note it triggers is the
\* note_id of the indicator build_note_indicators made for that Note, and
\* building the indicators again from the same timeline gives the same ids.
C35_IdsMatch ==
    /\ BiBuilt =>
          \A s \in 1..Len(bi_scans) :
              LET ids == SelectSeq(bi_scans[s].ids, InRangeId)
              IN  /\ Len(ids) = Len(bi_scans[s].sounded)
                  /\ \A k \in 1..Len(ids) : \A i \in 1..Len(bi_indicators) :
                        bi_indicators[i].ref = bi_scans[s].sounded[k]
                            => bi_indicators[i].note_id = ids[k]
    /\ bi_pc = "rebuilt" =>
          /\ Len(bi_rebuilt) = Len(bi_indicators)
          /\ \A i \in 1..Len(bi_indicators) :
                bi_rebuilt[i].note_id = bi_indicators[i].note_id

\* a call has triggered a Note of the second track that has an indicator, and
\* the indicators have been built a second time
C35_Witness ==
    /\ BiBuilt /\ bi_pc = "rebuilt"
    /\ \E s \in 1..Len(bi_scans) : \E k \in 1..Len(bi_scans[s].sounded) :
          /\ bi_scans[s].sounded[k][1] = 1
          /\ \E i \in 1..Len(bi_indicators) : bi_indicators[i].ref = bi_scans[s].sounded[k]

\* the document compiled with a timeline
CoBuilt == co_pc = "done" /\ ~co_result.thrown /\ co_result.has_midi

\* C36: when the timeline is built, the k-th MusicSection metadata entry and the
\* k-th tempo breakpoint come from the same music entry of the input: the
\* breakpoints follow the authored order (one per part, parts in the order of
\* data.musics), so the k-th metadata entry carries the id and the tps of the
\* k-th authored entry, whatever the order of ids in the authored array.
C36_SectionsMatchParts ==
    CoBuilt =>
        LET authored == co_input.musics.items
        IN  /\ Len(co_result.musics) = Len(co_result.midi_json.tempos)
            /\ Len(co_result.musics) = Len(authored)
            /\ \A k \in 1..Len(authored) :
                  /\ co_result.musics[k].id = authored[k].id.num
                  /\ co_result.musics[k].tps = calculate_tps(authored[k], co_result.base_bpm)
                  /\ co_result.midi_json.tempos[k].bpm
                        = Rat(co_result.parts[k].bpm, 30)

\* consecutive calls are less than the 1 s lookback window apart
FrameCadence(scans) ==
    \A k \in 1..(Len(scans) - 1) : scans[k + 1].time - scans[k].time < 10000

\* the references <<track_idx, i>> of the notes of the loaded data whose id no
\* other note carries
DistinctNotes(midi_data) ==
    {ref \in UNION {{<<t - 1, i - 1>> : i \in 1..Len(midi_data.tracks[t])} :
                       t \in 1..Len(midi_data.tracks)} :
        LET id == note_id(midi_data.tracks[ref[1] + 1][ref[2] + 1], ref[1])
        IN  Cardinality(NotesWithId(midi_data, id)) = 1
            /\ \A t \in 1..Len(midi_data.tracks) :
                  \A i, j \in 1..Len(midi_data.tracks[t]) :
                      (note_id(midi_data.tracks[t][i], t - 1) = id
                       /\ note_id(midi_data.tracks[t][j], t - 1) = id) => i = j}

\* C37: in a sequence of update_midi_playback calls with non-decreasing times and
\* less than 1 s between consecutive calls, every Note with an id of its own
\* whose time is after the first call's time and not after the last call's time
\* has its id returned by the first call at or after its time, and by no other.
C37_NoNoteSkipped ==
    (NonDecreasing(pb_scans) /\ FrameCadence(pb_scans) /\ pb_scans # <<>>) =>
        \A ref \in DistinctNotes(pb_midi_data) :
            LET note == pb_midi_data.tracks[ref[1] + 1][ref[2] + 1]
                id == note_id(note, ref[1])
                due == {k \in 1..Len(pb_scans) : pb_scans[k].time >= note.time}
            IN  (note.time > pb_scans[1].time /\ due # {}) =>
                    \A k \in 1..Len(pb_scans) :
                        id \in Elements(pb_scans[k].ids)
                            <=> k = CHOOSE d \in due : \A o \in due : d <= o

\* four calls at 0 s, 5 ms, 1 s and 1.004 s: the second returns the Note at 5 ms,
\* the third the Note at 0.9996 s, each of them carrying an id of its own
C37_Witness ==
    /\ Len(pb_scans) = 4 /\ NonDecreasing(pb_scans) /\ FrameCadence(pb_scans)
    /\ pb_scans[1].time = 0 /\ pb_scans[4].time = 10040
    /\ <<0, 1>> \in DistinctNotes(pb_midi_data)
    /\ <<0, 2>> \in DistinctNotes(pb_midi_data)
    /\ note_id(pb_midi_data.tracks[1][2], 0) \in Elements(pb_scans[2].ids)
    /\ note_id(pb_midi_data.tracks[1][3], 0) \in Elements(pb_scans[3].ids)

\* the section's bpm: its own, else the document's
RtBpm == IF rt_music.bpm.t = "undefined" THEN <<120, 1>> ELSE rt_music.bpm.num

\* the row's height is duration / (32 * baseBeats)
RtScaled ==
    rt_row.height_multiplier
        = RatDiv(RatInt(rt_component.duration), RatMul(RatInt(32), rt_music.baseBeats.num))

GmPlayCalls ==
    {"handle_slot_input", "handle_keyboard_input", "toggle_pause", "update_scroll", "update_bot"}

\* the state value, the is_pressed and is_holding flags of every tile, the
\* is_completed flag of every row and completed_rows_count
GmPlayFields(g) ==
    <<g.state,
      [r \in 1..Len(g.rows) |->
          <<g.rows[r].is_completed,
            [k \in 1..Len(g.rows[r].rectangles) |->
                <<g.rows[r].rectangles[k].is_pressed, g.rows[r].rectangles[k].is_holding>>]>>],
      g.completed_rows_count>>

\* C39: once the state is GAME_OVER_MISCLICKED, GAME_OVER_OUT_OF_BOUNDS or
\* GAME_WON, every handle_slot_input, handle_keyboard_input, toggle_pause,
\* update_scroll and update_bot call leaves the state value, every tile's
\* is_pressed and is_holding, every row's is_completed and completed_rows_count
\* as they are; the state changes only in a reset, a load_level, or the
\* update_game_won call 1000 ms after the win that resets the game.
C39_GameOverAbsorbing ==
    [][is_game_over(gm_data) =>
          /\ gm_last' \in GmPlayCalls => GmPlayFields(gm_data') = GmPlayFields(gm_data)
          /\ gm_data'.state # gm_data.state =>
                \/ gm_last' \in {"reset", "load_level"}
                \/ gm_last' = "update_game_won" /\ gm_data.state = "GAME_WON"]_vars

\* a key was pressed in a won game, with a row under the cursor that has no
\* tile in some column
C39_Witness ==
    /\ gm_data.state = "GAME_WON"
    /\ gm_last = "handle_keyboard_input"
    /\ gm_data.completed_rows_count >= 2

\* the START row is there and not completed
GmBeforeStart(g) ==
    /\ g.state = "PAUSED"
    /\ FindStartRow(g) # 0 /\ ~g.rows[FindStartRow(g)].is_completed

====
